---- MODULE Spec2Model ----
(***************************************************************************)
(* Credential and access-token management of earthdaily.earthone.auth:     *)
(* the Auth constructor (credential resolution), the token property        *)
(* (refresh on demand with leeway and soft-degrade), _get_token (the       *)
(* refresh procedure) and the token_info cache files it reads and writes.  *)
(***************************************************************************)
EXTENDS Integers, Sequences, FiniteSets, TLC

VARIABLES
    auth,     \* the fields of the one Auth instance (constructed = FALSE before __init__ ran)
    env,      \* os.environ, the variables Auth reads
    files,    \* the file system: path -> content of the token_info file there
    now,      \* the clock, seconds since the epoch
    last,     \* what the last operation did: its result, exception, requests, warnings
    call,     \* the arguments of the constructor call
    wr,       \* cache writes in progress: directory, temporary files, each writer's position
    sess,     \* the thread-local session wrapper: process id, each thread's view and position
    thr,      \* threads inside Auth.token on the one instance: each thread's position and locals
    idn,      \* the identity view: the token's claims and the values cached from them
    dflt,     \* Auth._instance, the default instance, and the calls reading and setting it
    cat       \* one catalog object: its attributes, modified set, state and the last request

vars == <<auth, env, files, now, last, call, wr, sess, thr, idn, dflt, cat>>

(***************************************************************************)
(* Bounds of the model.                                                    *)
(***************************************************************************)
MaxTime == 3       \* the clock runs over 0..MaxTime
MaxLeeway == 1     \* leeway arguments 0..MaxLeeway
MaxSupplied == 3   \* arguments and environment variables supplied at once in SpecResolve
MaxForks == 2      \* forks along the line of processes followed in SpecSession
MaxGets == 3       \* session accesses a thread begins in one process
MaxGroups == 2     \* entries of the groups claim in SpecClaims
MaxCalls == 2      \* get_default_auth calls a thread begins in SpecDefault
MaxSets == 2       \* set_default_auth calls in SpecDefault
MaxKwargs == 2     \* keyword arguments of one update call in SpecCatalog

(***************************************************************************)
(* Values.  Python None is NONE; the empty string is "".  A value is       *)
(* truthy when `if value:` takes the branch.                                *)
(***************************************************************************)
NONE == "<None>"

Truthy(v) == v # NONE /\ v # ""

First2(a, b) == IF a # NONE THEN a ELSE b

First3(a, b, c) == IF a # NONE THEN a ELSE IF b # NONE THEN b ELSE c

(***************************************************************************)
(* Tokens.  kind "none" is None, "empty" the string "", "bad" a string     *)
(* whose middle segment does not decode, "jwt" a token whose claims carry  *)
(* exp and aud, "noexp" a token whose claims carry no exp.  n tells the    *)
(* tokens of one response apart (0 supplied, 1 access_token, 2 id_token).  *)
(***************************************************************************)
NoneTok == [kind |-> "none", exp |-> 0, aud |-> NONE, n |-> 0]

EmptyTok == [kind |-> "empty", exp |-> 0, aud |-> NONE, n |-> 0]

BadTok == [kind |-> "bad", exp |-> 0, aud |-> NONE, n |-> 0]

Jwt(exp, aud, n) == [kind |-> "jwt", exp |-> exp, aud |-> aud, n |-> n]

NoExpJwt(aud, n) == [kind |-> "noexp", exp |-> 0, aud |-> aud, n |-> n]

TruthyTok(t) == t.kind \notin {"none", "empty"}

\* the mutant of FirstTok: the second value is preferred
FirstTok_Second(a, b) == IF b.kind # "none" THEN b ELSE a

FirstTok(a, b) == IF a.kind # "none" THEN a ELSE b

\* Auth._get_payload: the claims of the middle segment, or AuthError.
PayloadRaises(t) == t.kind \notin {"jwt", "noexp"}

GetPayload(t) == [hasExp |-> t.kind = "jwt", exp |-> t.exp, aud |-> t.aud]

NoPayload == [hasExp |-> FALSE, exp |-> 0, aud |-> "<no payload>"]

\* the mutant of TokenExpired: a token without exp never expires
TokenExpired_NoExpFresh(payload, leeway, t) ==
    IF payload.hasExp THEN t + leeway > payload.exp ELSE FALSE

\* Auth._token_expired(payload, leeway) read at clock t.
TokenExpired(payload, leeway, t) ==
    IF payload.hasExp THEN t + leeway > payload.exp ELSE TRUE

(***************************************************************************)
(* Exceptions.  AuthError and OauthError come from                         *)
(* earthdaily.earthone.exceptions; a transport timeout is raised by the    *)
(* HTTP session.                                                           *)
(***************************************************************************)
IsAuthError(e) == e \in {"AuthError", "OauthError"}

(***************************************************************************)
(* Paths and token_info files.                                             *)
(***************************************************************************)
SENTINEL == "<default_token_info_path>"        \* Auth._default_token_info_path

DEFAULT_TOKEN_INFO_DIR == "~/.earthone/"

DEFAULT_TOKEN_INFO_PATH == DEFAULT_TOKEN_INFO_DIR \o "token_info.json"

JWT_TOKEN_PREFIX == "jwt_token_"

ENVPATH == "/env/token_info.json"              \* a value of EARTHONE_TOKEN_INFO_PATH

USERPATH == "/user/creds.json"                 \* a token_info_path argument

\* a token_info_path argument whose directory, not its file name, holds the prefix
NESTEDPATH == "/user/jwt_token_dir/creds.json"

Secrets == {"s1", "s2", "s3", "r1", "r2"}      \* the non-empty secrets of the model

Sha1Hex(s) == "sha1(" \o s \o ")"

\* the mutant of DerivedPath: one file for every refresh token
DerivedPath_Shared(rt) ==
    DEFAULT_TOKEN_INFO_DIR \o JWT_TOKEN_PREFIX \o Sha1Hex("s1") \o ".json"

DerivedPath(rt) ==
    DEFAULT_TOKEN_INFO_DIR \o JWT_TOKEN_PREFIX \o Sha1Hex(rt) \o ".json"

DerivedPaths == {DerivedPath(s) : s \in Secrets}

Paths == {DEFAULT_TOKEN_INFO_PATH, ENVPATH, USERPATH, NESTEDPATH} \cup DerivedPaths

\* `JWT_TOKEN_PREFIX in path`: a substring test on the whole path
HasJwtPrefix(path) == path \in DerivedPaths \cup {NESTEDPATH}

KEY_CLIENT_ID == "client_id"
KEY_CLIENT_SECRET == "client_secret"
KEY_REFRESH_TOKEN == "refresh_token"
KEY_SCOPE == "scope"
KEY_JWT_TOKEN == "jwt_token"
KEY_ALT_JWT_TOKEN == "JWT_TOKEN"

\* A file: missing, unreadable, not JSON, a JSON value that is no object, or
\* a JSON object with the keys `keys` (a key that is absent reads as None).
FileOf(shape, keys, cid, cs, rt, jwt, alt, scope) ==
    [shape |-> shape, keys |-> keys, client_id |-> cid, client_secret |-> cs,
     refresh_token |-> rt, jwt_token |-> jwt, JWT_TOKEN |-> alt, scope |-> scope]

Missing == FileOf("missing", {}, NONE, NONE, NONE, NoneTok, NoneTok, NONE)

Unreadable == FileOf("unreadable", {}, NONE, NONE, NONE, NoneTok, NoneTok, NONE)

BadJson == FileOf("badjson", {}, NONE, NONE, NONE, NoneTok, NoneTok, NONE)

NonObject == FileOf("nonobj", {}, NONE, NONE, NONE, NoneTok, NoneTok, NONE)

EmptyObj == FileOf("obj", {}, NONE, NONE, NONE, NoneTok, NoneTok, NONE)

KeysOf(cid, cs, rt, jwt, alt, scope) ==
    {k \in {KEY_CLIENT_ID} : cid # NONE} \cup {k \in {KEY_CLIENT_SECRET} : cs # NONE}
    \cup {k \in {KEY_REFRESH_TOKEN} : rt # NONE} \cup {k \in {KEY_SCOPE} : scope # NONE}
    \cup {k \in {KEY_JWT_TOKEN} : jwt # NoneTok} \cup {k \in {KEY_ALT_JWT_TOKEN} : alt # NoneTok}

Obj(cid, cs, rt, jwt, alt, scope) ==
    FileOf("obj", KeysOf(cid, cs, rt, jwt, alt, scope), cid, cs, rt, jwt, alt, scope)

FileExists(fs, path) == fs[path].shape # "missing"

NoCache(e) == e.EARTHONE_NO_JWT_CACHE = "true"

\* Auth._read_token_info: the parsed JSON value, or {} on any failure.
ReadFails(fs, e, path) ==
    ~NoCache(e) /\ fs[path].shape \in {"missing", "unreadable", "badjson"}

ReadTokenInfo(fs, e, path) ==
    IF NoCache(e) \/ ReadFails(fs, e, path) THEN EmptyObj ELSE fs[path]

\* token_info.get(...) on a JSON value that is no object raises AttributeError.
GetRaises(info) == info.shape = "nonobj"

\* Auth._write_token_info: io is whether the file operations succeed.  A
\* file with the derived name keeps only the token; any exception is caught.
OnlyToken_Everything(info) == info

OnlyToken(info) ==
    FileOf("obj", {KEY_JWT_TOKEN}, NONE, NONE, NONE, info.jwt_token, NoneTok, NONE)

WriteRaisesInside(path, info, io) ==
    io = "fail" \/ (HasJwtPrefix(path) /\ KEY_JWT_TOKEN \notin info.keys)

WriteTokenInfo(fs, path, info, io) ==
    IF WriteRaisesInside(path, info, io) THEN fs
    ELSE [fs EXCEPT ![path] = IF HasJwtPrefix(path) THEN OnlyToken(info) ELSE info]

(***************************************************************************)
(* The Auth instance.                                                      *)
(***************************************************************************)
\* the identity values cached besides the payload: _namespace and the four
\* __dict__ entries; a cached value is kept as the token it was computed from
IdentityKeys ==
    {"namespace", "all_acl_subjects", "all_acl_subjects_as_set",
     "all_owner_acl_subjects", "all_owner_acl_subjects_as_set"}

NoIdentity == [k \in IdentityKeys |-> NoneTok]

NoAuth ==
    [constructed |-> FALSE, client_id |-> NONE, client_secret |-> NONE,
     refresh_token |-> NONE, token |-> NoneTok, scope |-> NONE,
     token_info_path |-> NONE, leeway |-> 0, payload |-> NoPayload,
     identity |-> NoIdentity]

NoArgs ==
    [client_id |-> NONE, client_secret |-> NONE, refresh_token |-> NONE,
     jwt_token |-> NoneTok, token_info_path |-> SENTINEL, scope |-> NONE,
     leeway |-> 0, suppress |-> FALSE]

Idle ==
    [op |-> "init", raised |-> "none", ret |-> NoneTok, posted |-> FALSE,
     issued |-> FALSE, attempted |-> FALSE, inner |-> "none", warnings |-> {},
     mode |-> "none", had |-> {}]

(***************************************************************************)
(* Auth.__init__: credential resolution.  a holds the arguments, e the     *)
(* environment, fs the file system, t the clock, io whether the write of   *)
(* a supplied token to the derived file succeeds.                          *)
(***************************************************************************)
\* self.token_info_path after lines 358-364
\* the mutant of InitialPath: None is taken for the argument left out
InitialPath_NoneAsDefault(a, e) ==
    IF a.token_info_path \in {SENTINEL, NONE}
    THEN IF e.EARTHONE_TOKEN_INFO_PATH # NONE THEN e.EARTHONE_TOKEN_INFO_PATH
         ELSE DEFAULT_TOKEN_INFO_PATH
    ELSE a.token_info_path

InitialPath(a, e) ==
    IF a.token_info_path = SENTINEL
    THEN IF e.EARTHONE_TOKEN_INFO_PATH # NONE THEN e.EARTHONE_TOKEN_INFO_PATH
         ELSE DEFAULT_TOKEN_INFO_PATH
    ELSE a.token_info_path

\* the local token_info_path after lines 360-361
LocalPath(a) == IF a.token_info_path = SENTINEL THEN NONE ELSE a.token_info_path

ArgClientId(a, e) == First3(a.client_id, e.EARTHONE_CLIENT_ID, e.CLIENT_ID)

ArgClientSecret(a, e) == First3(a.client_secret, e.EARTHONE_CLIENT_SECRET, e.CLIENT_SECRET)

ArgRefreshToken(a, e) == First2(a.refresh_token, e.EARTHONE_REFRESH_TOKEN)

ArgToken(a, e) == FirstTok(a.jwt_token, e.EARTHONE_TOKEN)

\* lines 419-421: make sure self.refresh_token is set
EnsuredRefreshToken(a, e) ==
    IF ~Truthy(ArgRefreshToken(a, e)) THEN ArgClientSecret(a, e) ELSE ArgRefreshToken(a, e)

\* which branch of lines 423-469 runs
ResolveMode(a, e) ==
    IF Truthy(ArgClientId(a, e)) \/ Truthy(EnsuredRefreshToken(a, e)) \/ TruthyTok(ArgToken(a, e))
    THEN IF Truthy(LocalPath(a)) THEN "explicit_path"
         ELSE IF Truthy(EnsuredRefreshToken(a, e)) /\ Truthy(InitialPath(a, e)) THEN "derived"
         ELSE "arguments"
    ELSE IF Truthy(InitialPath(a, e)) THEN "file"
    ELSE "nothing"

\* lines 471-488
MismatchWarned(cs, rt) == Truthy(cs) /\ Truthy(rt) /\ cs # rt

ReconciledSecret_SecretWins(cs, rt) == IF Truthy(cs) THEN cs ELSE rt

ReconciledSecret(cs, rt) == IF Truthy(rt) THEN rt ELSE cs

ReconciledRefresh(cs, rt) == IF Truthy(rt) THEN rt ELSE IF Truthy(cs) THEN cs ELSE rt

\* lines 494-504: verify that the token is valid, otherwise clear it
ValidatedToken_NoAudience(tok, cid, t) ==
    IF ~TruthyTok(tok) THEN tok
    ELSE IF PayloadRaises(tok) THEN NoneTok
    ELSE IF TokenExpired(GetPayload(tok), 0, t) THEN NoneTok
    ELSE tok

ValidatedToken(tok, cid, t) ==
    IF ~TruthyTok(tok) THEN tok
    ELSE IF PayloadRaises(tok) THEN NoneTok
    ELSE IF TokenExpired(GetPayload(tok), 0, t)
            \/ (Truthy(cid) /\ GetPayload(tok).aud # cid)
         THEN NoneTok
    ELSE tok

\* lines 444-447: a supplied token is saved to the derived file
ConstructWrites(a, e) == ResolveMode(a, e) = "derived" /\ TruthyTok(ArgToken(a, e))

Construct(a, e, fs, t, io) ==
    LET mode == ResolveMode(a, e)
        path0 == InitialPath(a, e)
        cid0 == ArgClientId(a, e)
        cs0 == ArgClientSecret(a, e)
        rt0 == EnsuredRefreshToken(a, e)
        tok0 == ArgToken(a, e)
        \* the file each branch reads
        readPath == IF mode = "derived" THEN DerivedPath(rt0) ELSE path0
        doesRead == \/ mode = "explicit_path" /\ FileExists(fs, path0)
                    \/ mode = "derived" /\ ~TruthyTok(tok0)
                    \/ mode = "file"
        got == IF doesRead THEN ReadTokenInfo(fs, e, readPath) ELSE EmptyObj
        readWarned == /\ doesRead /\ ReadFails(fs, e, readPath)
                      /\ CASE mode = "derived" -> FALSE
                           [] mode = "file" -> ~a.suppress
                           [] OTHER -> TRUE
        \* the token_info variable (the derived branch does not assign it)
        info == IF mode = "derived" THEN EmptyObj ELSE got
        raised == IF doesRead /\ GetRaises(got) THEN "AttributeError" ELSE "none"
        cid1 == IF mode = "file" THEN got.client_id ELSE cid0
        cs1 == IF mode = "file" THEN got.client_secret ELSE cs0
        rt1 == IF mode = "file" THEN got.refresh_token ELSE rt0
        tok1 ==
            CASE mode = "file" -> FirstTok(got.JWT_TOKEN, got.jwt_token)
              [] mode = "explicit_path" ->
                    IF /\ doesRead /\ ~TruthyTok(tok0)
                       /\ cid0 = got.client_id /\ rt0 = got.refresh_token
                    THEN got.jwt_token ELSE tok0
              [] mode = "derived" -> IF TruthyTok(tok0) THEN tok0 ELSE got.jwt_token
              [] OTHER -> tok0
        path1 == IF mode = "derived" THEN DerivedPath(rt0) ELSE path0
        fs1 == IF ConstructWrites(a, e)
               THEN WriteTokenInfo(fs, path1, Obj(NONE, NONE, NONE, tok0, NoneTok, NONE), io)
               ELSE fs
        cs2 == ReconciledSecret(cs1, rt1)
        rt2 == ReconciledRefresh(cs1, rt1)
        scope == First2(a.scope, info.scope)
        tok2 == ValidatedToken(tok1, cid1, t)
        noAuthWarned == ~a.suppress /\ ~(TruthyTok(tok2) \/ (Truthy(cid1) /\ Truthy(rt2)))
        warnings == {w \in {"read_failed"} : readWarned}
                    \cup {w \in {"mismatch"} : MismatchWarned(cs1, rt1)}
                    \cup {w \in {"no_auth"} : noAuthWarned}
    IN  IF raised # "none"
        THEN [raised |-> raised, auth |-> NoAuth, files |-> fs, warnings |-> {},
              mode |-> mode]
        ELSE [raised |-> "none",
              auth |-> [constructed |-> TRUE, client_id |-> cid1, client_secret |-> cs2,
                        refresh_token |-> rt2, token |-> tok2, scope |-> scope,
                        token_info_path |-> path1, leeway |-> a.leeway,
                        payload |-> NoPayload, identity |-> NoIdentity],
              files |-> fs1, warnings |-> warnings, mode |-> mode]

(***************************************************************************)
(* Auth._get_token: the refresh procedure.  resp is what the POST to       *)
(* /token brings back: a response with a status and, on 200, the JSON      *)
(* fields access_token and id_token, or a timeout raised by the session.   *)
(***************************************************************************)
\* Auth._clear_cache
ClearCache_KeepsNamespace(au) ==
    [au EXCEPT !.payload = NoPayload,
               !.identity = [k \in IdentityKeys |->
                                IF k = "namespace" THEN au.identity[k] ELSE NoneTok]]

ClearCache(au) == [au EXCEPT !.payload = NoPayload, !.identity = NoIdentity]

\* the mutant of CredentialsMissing: the request is made whatever is missing
CredentialsMissing_Never(au) == FALSE

\* lines 750-756: the credential errors raised before any request
CredentialsMissing(au) ==
    au.client_id = NONE \/ (au.client_secret = NONE /\ au.refresh_token = NONE)

\* lines 781-795: the exception the exchange ends with
ExchangeRaised(resp) ==
    CASE resp.kind = "timeout" -> "Timeout"
      [] resp.status # 200 -> "OauthError"
      [] resp.access_token = NoneTok /\ resp.id_token = NoneTok -> "OauthError"
      [] OTHER -> "none"

\* lines 790-793: access_token is preferred over id_token
IssuedToken_IdFirst(resp) ==
    IF resp.id_token # NoneTok THEN resp.id_token ELSE resp.access_token

IssuedToken(resp) ==
    IF resp.access_token # NoneTok THEN resp.access_token ELSE resp.id_token

\* lines 808-820: the token_info to save
MergedTokenInfo_KeepsLegacy(au, info, tok) ==
    IF info.client_id # au.client_id \/ info.client_secret # au.client_secret
    THEN FileOf("obj",
                {KEY_CLIENT_ID, KEY_CLIENT_SECRET, KEY_REFRESH_TOKEN, KEY_JWT_TOKEN},
                au.client_id, au.client_secret, au.refresh_token, tok, NoneTok, NONE)
    ELSE [info EXCEPT !.jwt_token = tok, !.keys = @ \cup {KEY_JWT_TOKEN}]

MergedTokenInfo(au, info, tok) ==
    IF info.client_id # au.client_id \/ info.client_secret # au.client_secret
    THEN FileOf("obj",
                {KEY_CLIENT_ID, KEY_CLIENT_SECRET, KEY_REFRESH_TOKEN, KEY_JWT_TOKEN},
                au.client_id, au.client_secret, au.refresh_token, tok, NoneTok, NONE)
    ELSE [info EXCEPT !.jwt_token = tok, !.JWT_TOKEN = NoneTok,
                      !.keys = (@ \cup {KEY_JWT_TOKEN}) \ {KEY_ALT_JWT_TOKEN}]

\* lines 781-798: the instance after the exchange (token stored, caches cleared)
Exchange_Unchecked(au, resp) == ClearCache([au EXCEPT !.token = IssuedToken(resp)])

Exchange(au, resp) ==
    IF ExchangeRaised(resp) # "none" THEN au
    ELSE ClearCache([au EXCEPT !.token = IssuedToken(resp)])

GetToken(au, e, fs, resp, io) ==
    IF CredentialsMissing(au)
    THEN [raised |-> "AuthError", auth |-> au, files |-> fs, posted |-> FALSE,
          issued |-> FALSE]
    ELSE IF ExchangeRaised(resp) # "none"
    THEN [raised |-> ExchangeRaised(resp), auth |-> Exchange(au, resp), files |-> fs,
          posted |-> TRUE, issued |-> FALSE]
    ELSE
        LET au1 == Exchange(au, resp)
            info == ReadTokenInfo(fs, e, au.token_info_path)
        IN  IF ~Truthy(au.token_info_path)
            THEN [raised |-> "none", auth |-> au1, files |-> fs, posted |-> TRUE,
                  issued |-> TRUE]
            ELSE IF GetRaises(info)
            THEN [raised |-> "AttributeError", auth |-> au1, files |-> fs,
                  posted |-> TRUE, issued |-> TRUE]
            ELSE [raised |-> "none", auth |-> au1,
                  files |-> WriteTokenInfo(fs, au.token_info_path,
                                           MergedTokenInfo(au1, info, au1.token), io),
                  posted |-> TRUE, issued |-> TRUE]

(***************************************************************************)
(* Auth.token: the token, refreshed when absent or within leeway.  t is    *)
(* the clock when the access starts, d the seconds the refresh request     *)
(* takes: the second expiry check (line 583) reads the clock after it.     *)
(***************************************************************************)
\* line 578: the first expiry check decides whether a refresh is attempted
NeedsRefresh_NoLeeway(au, t) == TokenExpired(GetPayload(au.token), 0, t)

NeedsRefresh_AtExpiry(au, t) ==
    TokenExpired(GetPayload(au.token), au.leeway + 1, t)

NeedsRefresh(au, t) == TokenExpired(GetPayload(au.token), au.leeway, t)

\* lines 581-584: a failed refresh is swallowed unless the token truly expired
Swallowed_Leeway(raised, au, t) ==
    IsAuthError(raised) /\ ~TokenExpired(GetPayload(au.token), au.leeway, t)

Swallowed(raised, au, t) ==
    IsAuthError(raised) /\ ~TokenExpired(GetPayload(au.token), 0, t)

TokenAccess(au, e, fs, t, d, resp, io) ==
    LET quiet == [raised |-> "none", auth |-> au, files |-> fs, posted |-> FALSE,
                  issued |-> FALSE, attempted |-> FALSE, inner |-> "none",
                  ret |-> au.token, t2 |-> t]
        g == GetToken(au, e, fs, resp, io)
        t2 == IF g.posted THEN t + d ELSE t
        refreshed == [raised |-> g.raised, auth |-> g.auth, files |-> g.files,
                      posted |-> g.posted, issued |-> g.issued, attempted |-> TRUE,
                      inner |-> g.raised,
                      ret |-> IF g.raised = "none" THEN g.auth.token ELSE NoneTok,
                      t2 |-> t2]
    IN  IF au.token = NoneTok THEN refreshed
        ELSE IF PayloadRaises(au.token)
        THEN [quiet EXCEPT !.raised = "AuthError", !.ret = NoneTok]
        ELSE IF ~NeedsRefresh(au, t) THEN quiet
        ELSE IF g.raised = "none" THEN refreshed
        ELSE IF Swallowed(g.raised, au, t2)
        THEN [refreshed EXCEPT !.raised = "none", !.ret = g.auth.token]
        ELSE refreshed

(***************************************************************************)
(* Auth.payload: the claims of the current token, cached until the next    *)
(* reissue.                                                                *)
(***************************************************************************)
PayloadAccess(au, e, fs, t, d, resp, io) ==
    LET r == TokenAccess(au, e, fs, t, d, resp, io)
    IN  IF au.payload # NoPayload
        THEN [raised |-> "none", auth |-> au, files |-> fs, posted |-> FALSE,
              issued |-> FALSE, attempted |-> FALSE, inner |-> "none",
              ret |-> au.token, t2 |-> t]
        ELSE IF r.raised # "none" THEN r
        ELSE IF PayloadRaises(r.ret) THEN [r EXCEPT !.raised = "AuthError"]
        ELSE [r EXCEPT !.auth.payload = GetPayload(r.ret)]

(***************************************************************************)
(* Auth.namespace, all_acl_subjects, all_owner_acl_subjects and their set  *)
(* forms: each is computed on first access from the payload and from the   *)
(* values it builds on, and cached.                                        *)
(***************************************************************************)
\* the cached values the computation of k reads through their properties
BuildsOn(k) ==
    CASE k = "namespace" -> {}
      [] k = "all_acl_subjects" -> {"namespace"}
      [] k = "all_acl_subjects_as_set" -> {"all_acl_subjects", "namespace"}
      [] k = "all_owner_acl_subjects" -> {"namespace"}
      [] k = "all_owner_acl_subjects_as_set" -> {"all_owner_acl_subjects", "namespace"}

\* what is cached: "payload" and the identity keys that hold a value
CachedKeys(au) ==
    {k \in IdentityKeys : au.identity[k] # NoneTok}
    \cup {k \in {"payload"} : au.payload # NoPayload}

IdentityAccess(au, k, e, fs, t, d, resp, io) ==
    LET r == PayloadAccess(au, e, fs, t, d, resp, io)
    IN  IF au.identity[k] # NoneTok
        THEN [raised |-> "none", auth |-> au, files |-> fs, posted |-> FALSE,
              issued |-> FALSE, attempted |-> FALSE, inner |-> "none",
              ret |-> au.token, t2 |-> t]
        ELSE IF r.raised # "none" THEN r
        ELSE [r EXCEPT !.auth.identity =
                 [x \in IdentityKeys |->
                     IF x \in BuildsOn(k) \cup {k} /\ r.auth.identity[x] = NoneTok
                     THEN r.auth.token ELSE r.auth.identity[x]]]

(***************************************************************************)
(* Auth._write_token_info step by step.  Writers are refreshes (of         *)
(* instances holding the same credentials, in threads or processes) that   *)
(* save their token to the same cache file.  dir is the mode of the parent *)
(* directory ("absent", "owner" = 0700, "open" = anything wider), fmode    *)
(* the mode of the cache file, a writer's tmp the state of its temporary   *)
(* file.                                                                   *)
(***************************************************************************)
Writers == {"w1", "w2"}

IdleWriter ==
    [pc |-> "idle", info |-> EmptyObj, content |-> EmptyObj, mem |-> NoneTok,
     tmp |-> "none", tmode |-> "none", warned |-> FALSE, raised |-> "none",
     ret |-> NoneTok]

NoWrites ==
    [platform |-> "posix", path |-> NONE, dir |-> "absent", fmode |-> "none",
     versions |-> {}, seen |-> Missing, w |-> [x \in Writers |-> IdleWriter]]

\* makedirs_if_not_exists: the mode of the directory afterwards, and whether it raised
MakedirsIfNotExists(dir, ok) ==
    IF dir # "absent" THEN [dir |-> dir, raised |-> FALSE]
    ELSE IF ok THEN [dir |-> "owner", raised |-> FALSE]
    ELSE [dir |-> "absent", raised |-> TRUE]

\* lines 718-720: what is serialized to the temporary file
Stripped(path, info) == IF HasJwtPrefix(path) THEN OnlyToken(info) ELSE info

\* os.rename(temp_path, path) raises FileExistsError (Windows, destination there)
RenameRefused(platform, fs, path) == platform = "windows" /\ FileExists(fs, path)

\* lines 737-747: the handler and the finally clause after a failed step
AfterFailure_LeavesTemp(wtr) ==
    [wtr EXCEPT !.pc = "done", !.warned = TRUE, !.ret = wtr.mem]

AfterFailure(wtr) ==
    [wtr EXCEPT !.pc = "done", !.warned = TRUE, !.tmp = "none", !.tmode = "none",
                !.ret = wtr.mem]

(***************************************************************************)
(* ThreadLocalWrapper: the session of each thread of each process.         *)
(***************************************************************************)
\* threading.local gives each thread its own attributes _pid and wrapped.
\* The wrapper is made by t1, the thread that constructs the Auth; a fork
\* keeps the forking thread alone, with its attributes, in the child.
Threads == {"t1", "t2"}

NoPid == -1

NoSession == [id |-> -1, pid |-> NoPid]

EmptyView == [pid |-> NoPid, wrapped |-> NoSession]

\* ThreadLocalWrapper.__init__: _create_local(os.getpid()) in the calling thread
NoSessions ==
    [pid |-> 0, forks |-> 0,
     view |-> [t \in Threads |-> IF t = "t1" THEN [EmptyView EXCEPT !.pid = 0]
                                  ELSE EmptyView],
     pc |-> [t \in Threads |-> "out"],
     gets |-> [t \in Threads |-> 0],
     made |-> [t \in Threads |-> 0],
     got |-> [t \in Threads |-> {}],
     built |-> 0, inherited |-> {}, ret |-> NoSession, raised |-> "none"]

\* _init_local: `elif local_pid != previous_pid`
PidChanged(previous, local) == previous # NoPid /\ local # previous

\* _init_local, with _create_local when the process id changed
InitLocal(view, t, pid) ==
    IF view[t].pid = NoPid THEN [view EXCEPT ![t].pid = pid]
    ELSE IF PidChanged(view[t].pid, pid)
    THEN [x \in Threads |-> IF x = t THEN [EmptyView EXCEPT !.pid = pid] ELSE EmptyView]
    ELSE view

(***************************************************************************)
(* Claims and the identity view: Auth.payload, namespace, all_acl_subjects *)
(* and all_owner_acl_subjects.  A group string is kept as the sequence of  *)
(* its parts between colons, as group.split(":") yields them.              *)
(***************************************************************************)
EARTHONE_CUSTOM_CLAIM_PREFIX == "earthdaily__dl__"
ACL_PREFIX_USER == "user:"
ACL_PREFIX_EMAIL == "email:"
ACL_PREFIX_GROUP == "group:"
ACL_PREFIX_ORG == "org:"
ACL_PREFIX_ACCESS == "access-id:"
ORG_ADMIN == "org-admin"
RESOURCE_ADMIN == "resource-admin"
ORG_ADMIN_SUFFIX == ":" \o ORG_ADMIN
RESOURCE_ADMIN_SUFFIX == ":" \o RESOURCE_ADMIN

\* str.lower() on the strings of the model
Lower(s) ==
    CASE s = "Ann@X.io" -> "ann@x.io"
      [] s = "BOB@y.IO" -> "bob@y.io"
      [] OTHER -> s

RECURSIVE GroupText(_)
\* the group string: its parts joined by colons
GroupText(parts) ==
    IF Len(parts) = 0 THEN ""
    ELSE IF Len(parts) = 1 THEN parts[1]
    ELSE parts[1] \o ":" \o GroupText(Tail(parts))

\* group.endswith(":" + tail): the last part is tail and a colon precedes it
EndsWith(parts, tail) == Len(parts) >= 2 /\ parts[Len(parts)] = tail

\* group[:-len(suffix)]
StripSuffix(parts) == GroupText(SubSeq(parts, 1, Len(parts) - 1))

\* payload: the decoded claims with the custom-claim prefix stripped from
\* the keys that carry it (the renamed key replaces a plain one)
Doctor(raw) ==
    [userid |-> IF raw.dl_userid # NONE THEN raw.dl_userid ELSE raw.userid,
     sub |-> raw.sub, email |-> raw.email, org |-> raw.org,
     hasGroups |-> raw.hasGroups, groups |-> raw.groups]

\* payload.get("groups", [])
Groups(payload) == IF payload.hasGroups THEN payload.groups ELSE <<>>

\* the mutant of Namespace: the digest of sub even when userid is there
Namespace_SubOnly(payload) == Sha1Hex(payload.sub)

Namespace(payload) ==
    IF Truthy(payload.userid) THEN payload.userid ELSE Sha1Hex(payload.sub)

IsActive(payload, parts) ==
    \/ Len(parts) = 1
    \/ Truthy(payload.org) /\ parts[1] = payload.org

\* the mutant of ActiveGroups: every group of the claim
ActiveGroups_All(payload) == Groups(payload)

ActiveGroups(payload) ==
    SelectSeq(Groups(payload), LAMBDA parts : IsActive(payload, parts))

Prefixed(prefix, texts) == [i \in 1..Len(texts) |-> prefix \o texts[i]]

AllAclSubjects(namespace, payload) ==
    <<ACL_PREFIX_USER \o namespace>>
    \o (IF Truthy(payload.email)
        THEN <<ACL_PREFIX_EMAIL \o Lower(payload.email)>> ELSE <<>>)
    \o (IF Truthy(payload.org) THEN <<ACL_PREFIX_ORG \o payload.org>> ELSE <<>>)
    \o LET active == ActiveGroups(payload)
       IN  [i \in 1..Len(active) |-> ACL_PREFIX_GROUP \o GroupText(active[i])]

AdminsOf(payload, tail) ==
    LET admins == SelectSeq(Groups(payload), LAMBDA parts : EndsWith(parts, tail))
    IN  [i \in 1..Len(admins) |-> StripSuffix(admins[i])]

\* the mutant of get_org_admins: only the groups of the current organisation
get_org_admins_Active(payload) ==
    AdminsOf([payload EXCEPT !.groups = ActiveGroups(payload)], ORG_ADMIN)

get_org_admins(payload) == AdminsOf(payload, ORG_ADMIN)

get_resource_admins(payload) == AdminsOf(payload, RESOURCE_ADMIN)

NonEmpty(texts) == SelectSeq(texts, LAMBDA x : x # "")

\* the mutant of OwnerOrgs: the empty organisation is kept
OwnerOrgs_KeepsEmpty(payload) == get_org_admins(payload)

\* [ACL_PREFIX_ORG + org for org in self.get_org_admins() if org], before the prefix
OwnerOrgs(payload) == NonEmpty(get_org_admins(payload))

AllOwnerAclSubjects(namespace, payload) ==
    <<ACL_PREFIX_USER \o namespace>>
    \o Prefixed(ACL_PREFIX_ORG, OwnerOrgs(payload))
    \o Prefixed(ACL_PREFIX_ACCESS, NonEmpty(get_resource_admins(payload)))

NoClaims ==
    [userid |-> NONE, dl_userid |-> NONE, sub |-> "", email |-> NONE, org |-> NONE,
     hasGroups |-> FALSE, groups |-> <<>>]

\* nothing cached: no _payload in __dict__, _namespace None, no subject lists
\* (a cached subject list is never empty: it begins with the user subject)
NoView ==
    [claims |-> NoClaims, op |-> "init", hasPayload |-> FALSE,
     payload |-> Doctor(NoClaims), namespace |-> NONE,
     all_acl_subjects |-> <<>>, all_owner_acl_subjects |-> <<>>]

ViewPayload(v) ==
    IF v.hasPayload THEN v
    ELSE [v EXCEPT !.hasPayload = TRUE, !.payload = Doctor(v.claims)]

ViewNamespace(v) ==
    IF v.namespace # NONE THEN v
    ELSE LET v1 == ViewPayload(v)
         IN  [v1 EXCEPT !.namespace = Namespace(v1.payload)]

ViewAllAclSubjects(v) ==
    IF v.all_acl_subjects # <<>> THEN v
    ELSE LET v1 == ViewPayload(ViewNamespace(v))
         IN  [v1 EXCEPT !.all_acl_subjects = AllAclSubjects(v1.namespace, v1.payload)]

ViewAllOwnerAclSubjects(v) ==
    IF v.all_owner_acl_subjects # <<>> THEN v
    ELSE LET v1 == ViewPayload(ViewNamespace(v))
         IN  [v1 EXCEPT !.all_owner_acl_subjects =
                            AllOwnerAclSubjects(v1.namespace, v1.payload)]

\* _get_token stores a new token and calls _clear_cache
ViewNewToken(v, raw) == [NoView EXCEPT !.claims = raw]

(***************************************************************************)
(* Threads inside Auth.token on one instance.                              *)
(***************************************************************************)
\* the keys _clear_cache deletes from __dict__, in its order
ClearOrder ==
    <<"payload", "all_acl_subjects", "all_acl_subjects_as_set",
      "all_owner_acl_subjects", "all_owner_acl_subjects_as_set">>

\* del self.__dict__[key]
DelKey(au, k) ==
    IF k = "payload" THEN [au EXCEPT !.payload = NoPayload]
    ELSE [au EXCEPT !.identity[k] = NoneTok]

\* a thread outside Auth.token: its position and its local variables; reads
\* tells that Auth.payload called Auth.token
IdleThread ==
    [pc |-> "out", payload |-> NoPayload, tried |-> FALSE, mine |-> NoneTok,
     key |-> 1, info |-> EmptyObj, ret |-> NoneTok, raised |-> "none",
     reads |-> FALSE]

NoThreads == [x \in Threads |-> IdleThread]

(***************************************************************************)
(* Auth._instance, the default Auth of the process.  An instance is known  *)
(* by a number: those Auth() builds in get_default_auth count up from 1,   *)
(* the one a caller hands to set_default_auth is GivenAuth.                *)
(***************************************************************************)
NoInstance == 0

GivenAuth == 99

IdleCaller == [pc |-> "out", calls |-> 0, since |-> 0, ret |-> NoInstance]

\* _instance = None (line 200); made counts the instances built, sets lists
\* the values given to set_default_auth, born the number of earlier
\* set_default_auth calls when each instance was built, rets the results of
\* the calls during which set_default_auth was not called
NoDefault ==
    [instance |-> NoInstance, made |-> 0, sets |-> <<>>, born |-> <<>>,
     rets |-> {}, th |-> [x \in Threads |-> IdleCaller]]

(***************************************************************************)
(* A catalog object (CatalogObjectBase): _attributes, _modified, _saved    *)
(* and _deleted, and what its last call did.  An attribute not in          *)
(* _attributes has the value NONE.                                         *)
(***************************************************************************)
\* the attribute types of the object: id is immutable and not serialized,
\* created is readonly, name and tags are plain
AttrNames == {"id", "name", "tags", "created"}

Readonly(name) == name = "created"

Mutable(name) == name # "id"

Serializable(name) == name # "id"

\* a value the attribute type refuses when it validates
BadValue == "<bad>"

\* undone: the attributes a failed update had set and put back
NoCall == [op |-> "init", raised |-> "none", method |-> "none", sent |-> {},
           docid |-> NONE, params |-> FALSE, undone |-> {}]

NoCatalog ==
    [attrs |-> [n \in AttrNames |-> NONE], modified |-> {}, saved |-> FALSE,
     deleted |-> FALSE, last |-> NoCall]

Present(c) == {n \in AttrNames : c.attrs[n] # NONE}

\* CatalogObjectBase.state
State(c) ==
    IF c.deleted THEN "DELETED"
    ELSE IF ~c.saved THEN "UNSAVED"
    ELSE IF c.modified # {} THEN "MODIFIED"
    ELSE "SAVED"

\* _get_attribute_type and _set_modified: the exception setting name raises
SetRaises(c, name, val, validate) ==
    IF name \notin AttrNames THEN "AttributeError"
    ELSE IF validate /\ Readonly(name) THEN "AttributeValidationError"
    ELSE IF validate /\ ~Mutable(name) /\ name \in Present(c)
    THEN "AttributeValidationError"
    ELSE IF validate /\ val = BadValue THEN "AttributeValidationError"
    ELSE "none"

\* the attribute descriptor's __set__: _set_modified(name, changed, validate),
\* then the value stored in _attributes
AttributeSet(c, name, val, validate) ==
    IF SetRaises(c, name, val, validate) # "none" THEN c
    ELSE [c EXCEPT !.attrs[name] = val,
                   !.modified = IF c.attrs[name] # val THEN @ \cup {name} ELSE @]

RECURSIVE SetAll(_, _, _)
\* the attributes of names set one after the other from a response of the service
SetAll(c, names, values) ==
    IF names = {} THEN c
    ELSE LET n == CHOOSE x \in names : TRUE
         IN  SetAll(AttributeSet(c, n, values[n], FALSE), names \ {n}, values)

\* _initialize(saved=True, **data["attributes"]) with the object the service returned
Initialize(c, values) ==
    LET cleared == [c EXCEPT !.attrs = [n \in AttrNames |-> NONE], !.modified = {},
                             !.saved = TRUE, !.deleted = FALSE]
        filled == SetAll(cleared, {n \in AttrNames : values[n] # NONE}, values)
    IN  [filled EXCEPT !.modified = {}]

\* the mutant of UpdateFailed: what was set before the failure is kept
UpdateFailed_KeepsEarlier(original, current) == current

\* update lines 463-464: the attributes and the modified set are put back
UpdateFailed(original, current) ==
    [current EXCEPT !.attrs = original.attrs, !.modified = original.modified]

RECURSIVE UpdateLoop(_, _, _, _)
\* update lines 452-465: kwargs is the sequence of the (name, value) pairs
UpdateLoop(original, c, kwargs, ignore_errors) ==
    IF kwargs = <<>> THEN [raised |-> "none", cat |-> c, undone |-> {}]
    ELSE LET kw == Head(kwargs)
             raised == SetRaises(c, kw.name, kw.val, TRUE)
         IN  IF raised = "none"
             THEN UpdateLoop(original, AttributeSet(c, kw.name, kw.val, TRUE),
                             Tail(kwargs), ignore_errors)
             ELSE IF ignore_errors
             THEN UpdateLoop(original, c, Tail(kwargs), ignore_errors)
             ELSE [raised |-> raised, cat |-> UpdateFailed(original, c),
                   undone |-> {n \in AttrNames : c.attrs[n] # original.attrs[n]}]

\* check_deleted lines 62-63
Refused(c, op) ==
    [c EXCEPT !.last = [NoCall EXCEPT !.op = op, !.raised = "DeletedObjectError"]]

\* the mutant of NotFound: the object is not marked
NotFound_Unmarked(c, req) == [c EXCEPT !.last = [req EXCEPT !.raised = "DeletedObjectError"]]

\* check_deleted lines 66-72: NotFoundError from the service
NotFound(c, req) ==
    [c EXCEPT !.deleted = TRUE, !.last = [req EXCEPT !.raised = "DeletedObjectError"]]

\* what a request ends with: the request, the response
Answered(c, req, resp, values, deletes) ==
    CASE resp = "NotFoundError" -> NotFound(c, req)
      [] resp = "ServerError" -> [c EXCEPT !.last = [req EXCEPT !.raised = "ServerError"]]
      [] OTHER -> IF deletes THEN [c EXCEPT !.deleted = TRUE, !.last = req]
                  ELSE [Initialize(c, values) EXCEPT !.last = req]

update(c, kwargs, ignore_errors) ==
    IF State(c) = "DELETED" THEN Refused(c, "update")
    ELSE LET r == UpdateLoop(c, c, kwargs, ignore_errors)
         IN  [r.cat EXCEPT !.last = [NoCall EXCEPT !.op = "update", !.raised = r.raised,
                                                   !.undone = r.undone]]

\* the mutant of SaveSends: a PATCH carries every attribute
SaveSends_All(c) == {n \in Present(c) : Serializable(n)}

\* save lines 813-818: the attributes the request carries
SaveSends(c) ==
    {n \in (IF State(c) = "UNSAVED" THEN Present(c) ELSE c.modified) : Serializable(n)}

save(c, params, resp, values) ==
    IF State(c) = "DELETED" THEN Refused(c, "save")
    ELSE IF State(c) = "SAVED" /\ ~params
    THEN [c EXCEPT !.last = [NoCall EXCEPT !.op = "save"]]
    ELSE Answered(c, [NoCall EXCEPT !.op = "save",
                                    !.method = IF State(c) = "UNSAVED"
                                               THEN "POST" ELSE "PATCH",
                                    !.sent = SaveSends(c), !.docid = c.attrs["id"],
                                    !.params = params],
                  resp, values, FALSE)

reload(c, resp, values) ==
    IF State(c) = "DELETED" THEN Refused(c, "reload")
    ELSE IF State(c) # "SAVED"
    THEN [c EXCEPT !.last = [NoCall EXCEPT !.op = "reload", !.raised = "ValueError"]]
    ELSE Answered(c, [NoCall EXCEPT !.op = "reload", !.method = "GET",
                                    !.docid = c.attrs["id"]],
                  resp, values, FALSE)

delete(c, resp) ==
    IF State(c) = "DELETED" THEN Refused(c, "delete")
    ELSE IF State(c) = "UNSAVED"
    THEN [c EXCEPT !.last = [NoCall EXCEPT !.op = "delete",
                                           !.raised = "UnsavedObjectError"]]
    ELSE Answered(c, [NoCall EXCEPT !.op = "delete", !.method = "DELETE",
                                    !.docid = c.attrs["id"]],
                  resp, c.attrs, TRUE)

(***************************************************************************)
(* The inputs of the model.                                                *)
(***************************************************************************)
EmptyEnv ==
    [EARTHONE_CLIENT_ID |-> NONE, CLIENT_ID |-> NONE, EARTHONE_CLIENT_SECRET |-> NONE,
     CLIENT_SECRET |-> NONE, EARTHONE_REFRESH_TOKEN |-> NONE, EARTHONE_TOKEN |-> NoneTok,
     EARTHONE_TOKEN_INFO_PATH |-> NONE, EARTHONE_NO_JWT_CACHE |-> NONE]

AllMissing == [p \in Paths |-> Missing]

OneFile(path, content) == [AllMissing EXCEPT ![path] = content]

\* what the token endpoint may answer at clock t to a request of client cid
Lifes == {1, 2}            \* lifetimes of the tokens the endpoint issues

Delays == {0, 1}           \* seconds a refresh request may take

Issued(n, cid, t) == {Jwt(t + l, cid, n) : l \in Lifes} \cup {NoExpJwt(cid, n)}

Responses(cid, t) ==
    {[kind |-> "timeout", status |-> 0, access_token |-> NoneTok, id_token |-> NoneTok],
     [kind |-> "http", status |-> 500, access_token |-> NoneTok, id_token |-> NoneTok]}
    \cup {[kind |-> "http", status |-> 200, access_token |-> a, id_token |-> i] :
            a \in {NoneTok} \cup Issued(1, cid, t),
            i \in {NoneTok, Jwt(t + 2, cid, 2)}}

IoOutcomes == {"ok", "fail"}

(***************************************************************************)
(* Spec: the life of one Auth.  It is constructed from arguments, a cache  *)
(* file or nothing, and then its token and payload are accessed while the  *)
(* clock advances.                                                         *)
(***************************************************************************)
SuppliedTokens == {NoneTok, EmptyTok} \cup {Jwt(x, "c1", 0) : x \in 1..MaxTime}

LifeArgs ==
    [client_id : {NONE, "c1"}, client_secret : {NONE, "s1"}, refresh_token : {NONE},
     jwt_token : SuppliedTokens, token_info_path : {SENTINEL, NONE, USERPATH},
     scope : {NONE}, leeway : 0..MaxLeeway, suppress : {FALSE}]

LifeFiles ==
    {AllMissing,
     OneFile(USERPATH, NonObject),
     OneFile(DEFAULT_TOKEN_INFO_PATH,
             Obj("c1", "s1", "s1", Jwt(MaxTime - 1, "c1", 0), NoneTok, NONE))}

Init ==
    /\ auth = NoAuth
    /\ env = EmptyEnv
    /\ files \in LifeFiles
    /\ now = 0
    /\ last = Idle
    /\ call = NoArgs
    /\ wr = NoWrites
    /\ sess = NoSessions
    /\ thr = NoThreads
    /\ idn = NoView
    /\ dflt = NoDefault
    /\ cat = NoCatalog

ConstructStep(a, io) ==
    LET r == Construct(a, env, files, now, io)
    IN  /\ auth' = r.auth
        /\ files' = r.files
        /\ call' = a
        /\ last' = [Idle EXCEPT !.op = "construct", !.raised = r.raised,
                                !.warnings = r.warnings, !.mode = r.mode,
                                !.ret = r.auth.token]
        /\ UNCHANGED <<env, now, wr, sess, thr, idn, dflt, cat>>

DoConstruct ==
    /\ last.op = "init"
    /\ \E a \in LifeArgs :
          \E io \in (IF ConstructWrites(a, env) THEN IoOutcomes ELSE {"ok"}) :
              ConstructStep(a, io)

AccessStep(op, r) ==
    /\ auth' = r.auth
    /\ files' = r.files
    /\ now' = r.t2
    /\ last' = [Idle EXCEPT !.op = op, !.raised = r.raised, !.ret = r.ret,
                            !.posted = r.posted, !.issued = r.issued,
                            !.attempted = r.attempted, !.inner = r.inner,
                            !.had = IF r.issued THEN CachedKeys(auth) ELSE {}]
    /\ UNCHANGED <<env, call, wr, sess, thr, idn, dflt, cat>>

DoToken ==
    /\ auth.constructed
    /\ \E d \in Delays, resp \in Responses(auth.client_id, now),
          io \in (IF Truthy(auth.token_info_path) THEN IoOutcomes ELSE {"ok"}) :
          /\ now + d <= MaxTime
          /\ AccessStep("token", TokenAccess(auth, env, files, now, d, resp, io))

DoPayload ==
    /\ auth.constructed
    /\ \E d \in Delays, resp \in Responses(auth.client_id, now),
          io \in (IF Truthy(auth.token_info_path) THEN IoOutcomes ELSE {"ok"}) :
          /\ now + d <= MaxTime
          /\ AccessStep("payload", PayloadAccess(auth, env, files, now, d, resp, io))

Tick ==
    /\ now < MaxTime
    /\ now' = now + 1
    /\ last' = [Idle EXCEPT !.op = "tick"]
    /\ UNCHANGED <<auth, env, files, call, wr, sess, thr, idn, dflt, cat>>

Next == DoConstruct \/ DoToken \/ DoPayload \/ Tick

Spec == Init /\ [][Next]_vars

(***************************************************************************)
(* SpecResolve: the constructor alone, over every combination of           *)
(* arguments, environment variables and cache file of the sets below.      *)
(***************************************************************************)
ResolveNow == 1

GoodToken == Jwt(ResolveNow + 1, "c1", 0)

EdgeToken == Jwt(ResolveNow, "c1", 0)             \* exp = now: not yet expired

ExpiredToken == Jwt(ResolveNow - 1, "c1", 0)

OtherAudToken == Jwt(ResolveNow + 1, "c9", 0)

EnvToken == Jwt(ResolveNow + 1, "c2", 0)

AltToken == Jwt(ResolveNow + 2, "c1", 0)

EnvVarsSet(e) ==
    Cardinality({k \in DOMAIN e \ {"EARTHONE_TOKEN"} : e[k] # NONE})
    + (IF e.EARTHONE_TOKEN # NoneTok THEN 1 ELSE 0)

ResolveEnvs ==
    {e \in [EARTHONE_CLIENT_ID : {NONE, "c2"}, CLIENT_ID : {NONE, "c3"},
            EARTHONE_CLIENT_SECRET : {NONE, "s2"}, CLIENT_SECRET : {NONE, "s3"},
            EARTHONE_REFRESH_TOKEN : {NONE, "r2"}, EARTHONE_TOKEN : {NoneTok, EnvToken},
            EARTHONE_TOKEN_INFO_PATH : {NONE, ENVPATH},
            EARTHONE_NO_JWT_CACHE : {NONE, "true"}] : EnvVarsSet(e) <= MaxSupplied}

ResolveArgs ==
    [client_id : {NONE, "", "c1"}, client_secret : {NONE, "", "s1"},
     refresh_token : {NONE, "", "s1", "r1"},
     jwt_token : {NoneTok, EmptyTok, BadTok, GoodToken, EdgeToken, ExpiredToken,
                  OtherAudToken, NoExpJwt("c1", 0)},
     token_info_path : {SENTINEL, NONE, USERPATH},
     scope : {NONE}, leeway : {0}, suppress : {FALSE}]

ResolveContents ==
    {Unreadable, BadJson, NonObject, EmptyObj,
     Obj("c1", "s1", NONE, GoodToken, NoneTok, NONE),
     Obj("c1", NONE, "r1", GoodToken, NoneTok, NONE),
     Obj("c1", "s1", "r1", GoodToken, NoneTok, "sc"),
     Obj("c1", "s1", "s1", ExpiredToken, AltToken, NONE),
     Obj("c1", "", NONE, OtherAudToken, NoneTok, NONE),
     Obj("", "s1", "s1", OtherAudToken, NoneTok, NONE),
     Obj(NONE, NONE, NONE, EmptyTok, NoneTok, NONE)}

DerivedContents ==
    {BadJson, NonObject, Obj(NONE, NONE, NONE, GoodToken, NoneTok, NONE),
     Obj(NONE, NONE, NONE, OtherAudToken, NoneTok, NONE)}

ResolveFiles ==
    {AllMissing}
    \cup {OneFile(p, c) : p \in {DEFAULT_TOKEN_INFO_PATH, USERPATH}, c \in ResolveContents}
    \cup {OneFile(ENVPATH, c) :
            c \in {NonObject, Obj("c1", "s1", "r1", GoodToken, NoneTok, "sc")}}
    \cup {OneFile(DerivedPath(r), c) : r \in {"s1", "r1"}, c \in DerivedContents}

ArgsSupplied(a) ==
    Cardinality({k \in {"client_id", "client_secret", "refresh_token"} : a[k] # NONE})
    + (IF a.jwt_token # NoneTok THEN 1 ELSE 0)

InitResolve ==
    /\ auth = NoAuth
    /\ env \in ResolveEnvs
    /\ files \in ResolveFiles
    /\ now = ResolveNow
    /\ last = Idle
    /\ call = NoArgs
    /\ wr = NoWrites
    /\ sess = NoSessions
    /\ thr = NoThreads
    /\ idn = NoView
    /\ dflt = NoDefault
    /\ cat = NoCatalog

DoResolve ==
    /\ last.op = "init"
    /\ \E a \in ResolveArgs :
          /\ ArgsSupplied(a) + EnvVarsSet(env) <= MaxSupplied
          /\ \E io \in (IF ConstructWrites(a, env) THEN IoOutcomes ELSE {"ok"}) :
                ConstructStep(a, io)

SpecResolve == InitResolve /\ [][DoResolve]_vars

(***************************************************************************)
(* SpecSave: an Auth constructed with or without credentials over a cache  *)
(* file that holds the same credentials, other credentials or nothing; its *)
(* refreshes save to that file.                                            *)
(***************************************************************************)
SaveArgs ==
    [client_id : {NONE, "c1"}, client_secret : {NONE, "s1"}, refresh_token : {NONE},
     jwt_token : {NoneTok}, token_info_path : {SENTINEL, USERPATH},
     scope : {NONE}, leeway : {0}, suppress : {FALSE}]

SaveFiles ==
    {AllMissing,
     OneFile(USERPATH, Obj("c1", "s1", "r9", NoneTok, Jwt(1, "c1", 3), "sc")),
     OneFile(USERPATH, Obj("c9", "s9", NONE, Jwt(2, "c9", 0), NoneTok, NONE)),
     OneFile(USERPATH, BadJson)}

InitSave ==
    /\ auth = NoAuth
    /\ env = EmptyEnv
    /\ files \in SaveFiles
    /\ now = 0
    /\ last = Idle
    /\ call = NoArgs
    /\ wr = NoWrites
    /\ sess = NoSessions
    /\ thr = NoThreads
    /\ idn = NoView
    /\ dflt = NoDefault
    /\ cat = NoCatalog

DoConstructSave ==
    /\ last.op = "init"
    /\ \E a \in SaveArgs : ConstructStep(a, "ok")

NextSave == DoConstructSave \/ DoToken \/ DoPayload \/ Tick

SpecSave == InitSave /\ [][NextSave]_vars

(***************************************************************************)
(* SpecIdentity: an Auth constructed from arguments, without a cache file, *)
(* whose token, payload and identity values are accessed while the clock   *)
(* advances.                                                               *)
(***************************************************************************)
IdentityArgs ==
    [client_id : {"c1"}, client_secret : {"s1"}, refresh_token : {NONE},
     jwt_token : {NoneTok, Jwt(1, "c1", 0)}, token_info_path : {NONE},
     scope : {NONE}, leeway : 0..MaxLeeway, suppress : {FALSE}]

InitIdentity ==
    /\ env = EmptyEnv
    /\ files = AllMissing
    /\ now = 0
    /\ last = Idle
    /\ wr = NoWrites
    /\ sess = NoSessions
    /\ thr = NoThreads
    /\ idn = NoView
    /\ dflt = NoDefault
    /\ cat = NoCatalog
    /\ call \in IdentityArgs
    /\ auth = Construct(call, env, files, now, "ok").auth

DoIdentity ==
    /\ auth.constructed
    /\ \E k \in IdentityKeys, d \in Delays, resp \in Responses(auth.client_id, now),
          io \in (IF Truthy(auth.token_info_path) THEN IoOutcomes ELSE {"ok"}) :
          /\ now + d <= MaxTime
          /\ AccessStep("identity", IdentityAccess(auth, k, env, files, now, d, resp, io))

NextIdentity == DoToken \/ DoPayload \/ DoIdentity \/ Tick

SpecIdentity == InitIdentity /\ [][NextIdentity]_vars

(***************************************************************************)
(* SpecSession: the threads of a process access Auth.session, each access  *)
(* step by step; a thread that is not inside an access may fork, and the   *)
(* model goes on in the child.                                             *)
(***************************************************************************)
InitSession ==
    /\ auth = NoAuth
    /\ env = EmptyEnv
    /\ files = AllMissing
    /\ now = 0
    /\ last = Idle
    /\ call = NoArgs
    /\ wr = NoWrites
    /\ sess = NoSessions
    /\ thr = NoThreads
    /\ idn = NoView
    /\ dflt = NoDefault
    /\ cat = NoCatalog

SessionFrame == UNCHANGED <<auth, env, files, now, call, wr, thr, idn, dflt, cat>>

\* ThreadLocalWrapper.get, line 60: self._init_local()
GetInit(t) ==
    /\ sess.pc[t] = "out"
    /\ sess.gets[t] < MaxGets
    /\ sess' = [sess EXCEPT !.view = InitLocal(sess.view, t, sess.pid),
                             !.pc[t] = "check", !.gets[t] = @ + 1,
                             !.raised = "none"]
    /\ last' = [Idle EXCEPT !.op = "get"]
    /\ SessionFrame

\* line 61: `if not hasattr(self._local, "wrapped")`
GetCheck(t) ==
    /\ sess.pc[t] = "check"
    /\ sess' = [sess EXCEPT !.pc[t] = IF sess.view[t].wrapped = NoSession
                                       THEN "make" ELSE "return"]
    /\ last' = [Idle EXCEPT !.op = "check"]
    /\ SessionFrame

\* line 62: self._local.wrapped = self._factory()
GetMake(t) ==
    /\ sess.pc[t] = "make"
    /\ sess' = [sess EXCEPT !.view[t].wrapped = [id |-> sess.built, pid |-> sess.pid],
                             !.built = @ + 1, !.made[t] = @ + 1, !.pc[t] = "return"]
    /\ last' = [Idle EXCEPT !.op = "make"]
    /\ SessionFrame

\* line 63: return self._local.wrapped
GetReturn(t) ==
    /\ sess.pc[t] = "return"
    /\ IF sess.view[t].wrapped = NoSession
       THEN sess' = [sess EXCEPT !.pc[t] = "out", !.ret = NoSession,
                                 !.raised = "AttributeError"]
       ELSE sess' = [sess EXCEPT !.pc[t] = "out", !.ret = sess.view[t].wrapped,
                                 !.got[t] = @ \cup {sess.view[t].wrapped}]
    /\ last' = [Idle EXCEPT !.op = "session"]
    /\ SessionFrame

\* os.fork() called by thread t: the child has a new process id, thread t
\* with its thread-local attributes, and none of the other threads
Fork(t) ==
    /\ sess.pc[t] = "out"
    /\ sess.forks < MaxForks
    /\ sess' = [sess EXCEPT
                   !.pid = @ + 1, !.forks = @ + 1,
                   !.view = [x \in Threads |-> IF x = t THEN sess.view[t] ELSE EmptyView],
                   !.pc = [x \in Threads |-> "out"],
                   !.gets = [x \in Threads |-> 0],
                   !.made = [x \in Threads |-> 0],
                   !.got = [x \in Threads |-> {}],
                   !.inherited = {sess.view[t].wrapped} \ {NoSession},
                   !.ret = NoSession, !.raised = "none"]
    /\ last' = [Idle EXCEPT !.op = "fork"]
    /\ SessionFrame

NextSession ==
    \E t \in Threads : GetInit(t) \/ GetCheck(t) \/ GetMake(t) \/ GetReturn(t) \/ Fork(t)

SpecSession == InitSession /\ [][NextSession]_vars

(***************************************************************************)
(* SpecWrite: refreshes that save their token to one cache file while a    *)
(* reader reads it, every step of _write_token_info being a step of its    *)
(* own that may fail.                                                      *)
(***************************************************************************)
WritePaths == {USERPATH, NESTEDPATH, DerivedPath("s1")}

\* the instance a writer refreshes: credentials from arguments, cache at path
WriterAuth(path) ==
    [NoAuth EXCEPT !.constructed = TRUE, !.client_id = "c1", !.client_secret = "s1",
                   !.refresh_token = "s1", !.token_info_path = path]

\* the 200 response a writer's refresh receives
SaveResponse(w) ==
    [kind |-> "http", status |-> 200,
     access_token |-> Jwt(2, "c1", IF w = "w1" THEN 1 ELSE 2), id_token |-> NoneTok]

\* what the cache file may hold before the writes
WriteContents ==
    {Missing, Obj("c1", "s1", "s1", Jwt(1, "c1", 0), NoneTok, "sc"),
     Obj("c9", "s9", NONE, Jwt(1, "c9", 0), NoneTok, NONE)}

InitWrite ==
    /\ auth = NoAuth
    /\ env = EmptyEnv
    /\ now = 0
    /\ last = Idle
    /\ call = NoArgs
    /\ sess = NoSessions
    /\ thr = NoThreads
    /\ idn = NoView
    /\ dflt = NoDefault
    /\ cat = NoCatalog
    /\ \E path \in WritePaths, c \in WriteContents, pf \in {"posix", "windows"},
          dir \in {"absent", "owner", "open"}, fm \in {"owner", "open"} :
          /\ c # Missing => dir # "absent"
          /\ files = OneFile(path, c)
          /\ wr = [NoWrites EXCEPT !.platform = pf, !.path = path, !.dir = dir,
                                    !.fmode = IF c = Missing THEN "none" ELSE fm,
                                    !.versions = {c}, !.seen = c]

WriteFrame == UNCHANGED <<auth, env, now, call, sess, thr, idn, dflt, cat>>

SetWriter(w, wtr) == wr' = [wr EXCEPT !.w[w] = wtr]

Fail(w) ==
    /\ SetWriter(w, [wr.w[w] EXCEPT !.pc = "failed"])
    /\ UNCHANGED files

\* _get_token lines 786-821: token stored, token_info read and merged, write begun
BeginSave(w) ==
    /\ wr.w[w].pc = "idle"
    /\ LET au1 == Exchange(WriterAuth(wr.path), SaveResponse(w))
           info == MergedTokenInfo(au1, ReadTokenInfo(files, env, wr.path), au1.token)
       IN  SetWriter(w, [wr.w[w] EXCEPT !.pc = "makedirs", !.info = info,
                                         !.content = Stripped(wr.path, info),
                                         !.mem = au1.token])
    /\ last' = [Idle EXCEPT !.op = "begin"]
    /\ UNCHANGED files
    /\ WriteFrame

\* line 713: makedirs_if_not_exists(token_info_directory)
MakeDirs(w) ==
    /\ wr.w[w].pc = "makedirs"
    /\ \E ok \in BOOLEAN :
          LET r == MakedirsIfNotExists(wr.dir, ok)
          IN  wr' = [wr EXCEPT !.dir = r.dir,
                               !.w[w].pc = IF r.raised THEN "failed" ELSE "mkstemp"]
    /\ last' = [Idle EXCEPT !.op = "makedirs"]
    /\ UNCHANGED files
    /\ WriteFrame

\* lines 714-716: tempfile.mkstemp creates an empty file only its owner may use
Mkstemp(w) ==
    /\ wr.w[w].pc = "mkstemp"
    /\ \/ SetWriter(w, [wr.w[w] EXCEPT !.pc = "dump", !.tmp = "empty", !.tmode = "owner"])
          /\ UNCHANGED files
       \/ Fail(w)
    /\ last' = [Idle EXCEPT !.op = "mkstemp"]
    /\ WriteFrame

\* lines 722-726: json.dump writes the temporary file piece by piece
DumpBegin(w) ==
    /\ wr.w[w].pc = "dump"
    /\ SetWriter(w, [wr.w[w] EXCEPT !.pc = "dumping", !.tmp = "partial"])
    /\ last' = [Idle EXCEPT !.op = "dump"]
    /\ UNCHANGED files
    /\ WriteFrame

DumpEnd(w) ==
    /\ wr.w[w].pc = "dumping"
    /\ \/ wr' = [wr EXCEPT !.w[w].pc = "chmod", !.w[w].tmp = "complete",
                             !.versions = @ \cup {wr.w[w].content}]
          /\ UNCHANGED files
       \/ Fail(w)
    /\ last' = [Idle EXCEPT !.op = "dumped"]
    /\ WriteFrame

\* line 728: os.chmod(temp_path, S_IRUSR | S_IWUSR)
Chmod(w) ==
    /\ wr.w[w].pc = "chmod"
    /\ \/ SetWriter(w, [wr.w[w] EXCEPT !.pc = "rename", !.tmode = "owner"])
          /\ UNCHANGED files
       \/ Fail(w)
    /\ last' = [Idle EXCEPT !.op = "chmod"]
    /\ WriteFrame

\* the temporary file takes the place of the cache file
Land(w) ==
    /\ files' = [files EXCEPT ![wr.path] = wr.w[w].content]
    /\ wr' = [wr EXCEPT !.fmode = wr.w[w].tmode,
                         !.w[w] = [wr.w[w] EXCEPT !.pc = "done", !.tmp = "none",
                                                  !.tmode = "none",
                                                  !.ret = wr.w[w].mem]]

\* lines 730-735: os.rename, and on FileExistsError os.remove of the cache file
Rename(w) ==
    /\ wr.w[w].pc = "rename"
    /\ \/ /\ ~RenameRefused(wr.platform, files, wr.path)
          /\ Land(w)
          /\ last' = [Idle EXCEPT !.op = "landed"]
       \/ /\ RenameRefused(wr.platform, files, wr.path)
          /\ files' = [files EXCEPT ![wr.path] = Missing]
          /\ wr' = [wr EXCEPT !.fmode = "none", !.w[w].pc = "removed"]
          /\ last' = [Idle EXCEPT !.op = "removed"]
       \/ /\ Fail(w)
          /\ last' = [Idle EXCEPT !.op = "rename"]
    /\ WriteFrame

\* line 735: the second os.rename, after the cache file was removed
RenameAgain(w) ==
    /\ wr.w[w].pc = "removed"
    /\ \/ /\ ~RenameRefused(wr.platform, files, wr.path)
          /\ Land(w)
          /\ last' = [Idle EXCEPT !.op = "landed"]
       \/ /\ Fail(w)
          /\ last' = [Idle EXCEPT !.op = "rename"]
    /\ WriteFrame

\* lines 736-747: the exception is caught, the temporary file removed; the
\* refresh returns the token it stored
Cleanup(w) ==
    /\ wr.w[w].pc = "failed"
    /\ SetWriter(w, AfterFailure(wr.w[w]))
    /\ last' = [Idle EXCEPT !.op = "cleanup"]
    /\ UNCHANGED files
    /\ WriteFrame

\* another thread or process opens the cache file and reads it
ReadCache ==
    /\ wr.path # NONE
    /\ wr' = [wr EXCEPT !.seen = files[wr.path]]
    /\ last' = [Idle EXCEPT !.op = "read"]
    /\ UNCHANGED files
    /\ WriteFrame

NextWrite ==
    \/ \E w \in Writers :
          \/ BeginSave(w) \/ MakeDirs(w) \/ Mkstemp(w) \/ DumpBegin(w) \/ DumpEnd(w)
          \/ Chmod(w) \/ Rename(w) \/ RenameAgain(w) \/ Cleanup(w)
    \/ ReadCache

SpecWrite == InitWrite /\ [][NextWrite]_vars

(***************************************************************************)
(* Properties.                                                             *)
(***************************************************************************)
\* the step is a token access of the constructed instance
TokenStep == auth.constructed /\ last'.op = "token"

AccessStepTaken == auth.constructed /\ last'.op \in {"token", "payload"}

HasExp(tok) == tok.kind = "jwt"

\* C1: soft-degrade.  In every token access that finds a token within
\* leeway (now + leeway > exp) and whose refresh fails with a credential
\* or token-exchange error, the access returns the existing token unchanged
\* and raises nothing when the token has not truly expired (clock <= exp at
\* the check after the failed refresh), and raises the refresh error when
\* the clock has passed exp.
C1_SoftDegrade ==
    [][(/\ TokenStep /\ HasExp(auth.token)
        /\ now + auth.leeway > auth.token.exp
        /\ last'.inner \in {"AuthError", "OauthError"})
       => IF now' <= auth.token.exp
          THEN /\ last'.raised = "none"
               /\ last'.ret = auth.token
               /\ auth'.token = auth.token
          ELSE last'.raised = last'.inner]_vars

\* a refresh failed at the endpoint inside the leeway window and the stale
\* token was served
C1_Witness ==
    /\ last.op = "token" /\ last.attempted /\ last.posted
    /\ last.inner = "OauthError" /\ last.raised = "none"
    /\ HasExp(auth.token) /\ last.ret = auth.token
    /\ now + auth.leeway > auth.token.exp /\ now <= auth.token.exp

\* C2: a timeout of the refresh POST is treated as a refresh failure under
\* soft-degrade: within leeway and not truly expired, the access returns
\* the existing token and does not raise.
C2_TimeoutSoftDegrade ==
    [][(/\ TokenStep /\ HasExp(auth.token)
        /\ now + auth.leeway > auth.token.exp
        /\ last'.inner = "Timeout"
        /\ now' <= auth.token.exp)
       => (last'.raised = "none" /\ last'.ret = auth.token)]_vars

\* C3: with a token whose exp is numeric, a token access attempts a refresh
\* if and only if now + leeway > exp.
C3_RefreshIffWithinLeeway ==
    [][(TokenStep /\ HasExp(auth.token))
       => (last'.attempted <=> now + auth.leeway > auth.token.exp)]_vars

\* exp = now + leeway - 1: a refresh was attempted (it failed, the token stayed)
C3_Witness ==
    /\ last.op = "token" /\ last.attempted /\ ~last.issued /\ last.raised = "none"
    /\ HasExp(auth.token) /\ auth.leeway > 0
    /\ auth.token.exp = now + auth.leeway - 1

\* C4: an access that finds a token with now + leeway <= exp issues no
\* request, writes no file, changes no field of the instance and returns
\* that token; the token endpoint is contacted only by an access that
\* finds the token absent or within leeway.
C4_FreshAccessIsQuiet ==
    [][/\ (TokenStep /\ HasExp(auth.token) /\ now + auth.leeway <= auth.token.exp)
          => /\ ~last'.posted /\ last'.raised = "none"
             /\ last'.ret = auth.token
             /\ auth' = auth /\ files' = files
       /\ last'.posted
          => /\ AccessStepTaken
             /\ \/ auth.token = NoneTok
                \/ (~PayloadRaises(auth.token) /\ ~HasExp(auth.token))
                \/ (HasExp(auth.token) /\ now + auth.leeway > auth.token.exp)]_vars

\* a fresh token issued by an earlier refresh is served without a request
C4_Witness ==
    /\ last.op = "token" /\ ~last.attempted /\ ~last.posted /\ last.raised = "none"
    /\ HasExp(auth.token) /\ auth.token.n = 1 /\ last.ret = auth.token
    /\ now + auth.leeway = auth.token.exp
    /\ \E p \in Paths : files[p].jwt_token = auth.token

\* C10: once constructed, client_id, client_secret, refresh_token, scope and
\* the cache path never change; the token changes only in an access whose
\* refresh succeeded, to the token that refresh issued.
C10_CredentialsImmutable ==
    [][auth.constructed
       => /\ auth'.constructed
          /\ auth'.client_id = auth.client_id
          /\ auth'.client_secret = auth.client_secret
          /\ auth'.refresh_token = auth.refresh_token
          /\ auth'.scope = auth.scope
          /\ auth'.token_info_path = auth.token_info_path
          /\ (auth'.token # auth.token
              => /\ AccessStepTaken /\ last'.issued /\ last'.posted
                 /\ auth'.token.n \in {1, 2})]_vars

\* a refresh failed with credentials in place and a token in memory
C10_Witness ==
    /\ last.op \in {"token", "payload"} /\ last.posted /\ ~last.issued
    /\ last.inner = "OauthError" /\ last.raised = "OauthError"
    /\ auth.token # NoneTok /\ Truthy(auth.client_id) /\ Truthy(auth.refresh_token)

\* the step is the constructor call
ConstructTaken == last.op = "init" /\ last'.op = "construct"

Constructed == last.op = "construct" /\ auth.constructed

\* C5: constructing an Auth never raises, whatever the cache file holds.
C5_ConstructionNeverRaises == last.op = "construct" => last.raised = "none"

\* C6: construction with incomplete credentials (no client_id, or neither
\* client_secret nor refresh_token) and no valid token does not raise, and
\* every token access of such an instance raises AuthError without a
\* request to the token endpoint.
C6_DeferredCredentialError ==
    [][/\ (/\ ConstructTaken
           /\ \/ ArgClientId(call', env) = NONE
              \/ (ArgClientSecret(call', env) = NONE /\ ArgRefreshToken(call', env) = NONE)
           /\ ValidatedToken(ArgToken(call', env), NONE, now) \in {NoneTok, EmptyTok})
          => last'.raised = "none"
       /\ (/\ TokenStep
           /\ \/ auth.client_id = NONE
              \/ (auth.client_secret = NONE /\ auth.refresh_token = NONE)
           /\ ValidatedToken(auth.token, NONE, now) \in {NoneTok, EmptyTok})
          => (last'.raised = "AuthError" /\ ~last'.posted)]_vars

C8_Secret ==
    IF last.mode = "file"
    THEN ReadTokenInfo(files, env, auth.token_info_path).client_secret
    ELSE ArgClientSecret(call, env)

C8_Refresh ==
    IF last.mode = "file"
    THEN ReadTokenInfo(files, env, auth.token_info_path).refresh_token
    ELSE ArgRefreshToken(call, env)

\* C8: after construction, if either of client_secret and refresh_token is
\* set (not None, not empty) both hold the same value: the refresh token
\* when one was resolved, the client secret otherwise; when both were
\* resolved and differ a warning is emitted and the refresh token wins.
C8_SecretsReconciled ==
    Constructed
    => /\ (Truthy(auth.client_secret) \/ Truthy(auth.refresh_token))
          => auth.client_secret = auth.refresh_token
       /\ Truthy(C8_Refresh)
          => (auth.refresh_token = C8_Refresh /\ auth.client_secret = C8_Refresh)
       /\ (~Truthy(C8_Refresh) /\ Truthy(C8_Secret))
          => (auth.refresh_token = C8_Secret /\ auth.client_secret = C8_Secret)
       /\ (Truthy(C8_Refresh) /\ Truthy(C8_Secret) /\ C8_Refresh # C8_Secret)
          => "mismatch" \in last.warnings

\* a secret and a different refresh token were passed: warned, refresh token kept
C8_Witness ==
    /\ Constructed /\ call.client_secret = "s1" /\ call.refresh_token = "r1"
    /\ "mismatch" \in last.warnings
    /\ auth.client_secret = "r1" /\ auth.refresh_token = "r1"

\* C9, "given"/"set" read as not None
C9_AsNotNone ==
    /\ (call.client_id # NONE) => auth.client_id = call.client_id
    /\ (call.client_id = NONE /\ env.EARTHONE_CLIENT_ID # NONE)
          => auth.client_id = env.EARTHONE_CLIENT_ID
    /\ (call.client_id = NONE /\ env.EARTHONE_CLIENT_ID = NONE /\ env.CLIENT_ID # NONE)
          => auth.client_id = env.CLIENT_ID
    /\ (\/ ArgClientId(call, env) # NONE \/ ArgClientSecret(call, env) # NONE
        \/ ArgRefreshToken(call, env) # NONE \/ ArgToken(call, env) # NoneTok)
          => last.mode # "file"

\* C9, "given"/"set" read as not None and not empty
C9_AsTruthy ==
    /\ Truthy(call.client_id) => auth.client_id = call.client_id
    /\ (~Truthy(call.client_id) /\ Truthy(env.EARTHONE_CLIENT_ID))
          => auth.client_id = env.EARTHONE_CLIENT_ID
    /\ (~Truthy(call.client_id) /\ ~Truthy(env.EARTHONE_CLIENT_ID) /\ Truthy(env.CLIENT_ID))
          => auth.client_id = env.CLIENT_ID
    /\ (\/ Truthy(ArgClientId(call, env)) \/ Truthy(ArgClientSecret(call, env))
        \/ Truthy(ArgRefreshToken(call, env)) \/ TruthyTok(ArgToken(call, env)))
          => last.mode # "file"

\* C9: the resolved client_id is the explicit argument if given, else
\* EARTHONE_CLIENT_ID if set, else CLIENT_ID if set; the cache file's
\* client_id is used only when no client id, secret, refresh token or token
\* was supplied by argument or environment.
C9_ClientIdPrecedence == Constructed => (C9_AsNotNone \/ C9_AsTruthy)

\* C11: every file whose name follows the derived per-refresh-token pattern
\* holds the jwt_token field only: constructions and refreshes never write
\* client_id, client_secret or refresh_token to it.
C11_DerivedFileOnlyToken ==
    \A p \in DerivedPaths :
        FileExists(files, p) =>
            /\ files[p].shape = "obj"
            /\ files[p].keys = {KEY_JWT_TOKEN}
            /\ files[p].client_id = NONE
            /\ files[p].client_secret = NONE
            /\ files[p].refresh_token = NONE

\* a refresh of an instance holding the full credential set saved to the derived file
C11_Witness ==
    /\ last.op = "token" /\ last.issued
    /\ auth.token_info_path \in DerivedPaths
    /\ auth.client_id # NONE /\ auth.refresh_token # NONE
    /\ FileExists(files, auth.token_info_path)
    /\ files[auth.token_info_path].jwt_token = auth.token

\* the step is the one where writer w's temporary file becomes the cache file
Landed(w) == wr.w[w].pc \in {"rename", "removed"} /\ wr'.w[w].pc = "done" /\ last'.op = "landed"

\* C12: cache writes are atomic for concurrent readers and crashes: whatever
\* the step the writers are at, a reader of the cache file sees the complete
\* content it held before or the complete content of a write, with one or
\* with several writers.
C12_AtomicWrites == last.op = "read" => wr.seen \in wr.versions

C14_RoundTrip ==
    [][\A w \in Writers :
          Landed(w) =>
              ReadTokenInfo(files', env', wr.path) =
                  (IF wr.path \in DerivedPaths THEN OnlyToken(wr.w[w].info)
                   ELSE wr.w[w].info)]_vars

\* C15: after every successful cache write the parent directory is there with
\* owner-only permissions and the cache file has owner-only permissions,
\* whether the directory existed before or not.
C15_OwnerOnlyPermissions ==
    [][\A w \in Writers : Landed(w) => wr'.dir = "owner" /\ wr'.fmode = "owner"]_vars

\* the step is a token, payload or identity access of the instance
AnyAccess == auth.constructed /\ last'.op \in {"token", "payload", "identity"}

\* C16: the cached identity values (payload, namespace, the two subject lists
\* and their set forms) are cleared together by every reissue of the token
\* and by nothing else: after an access that reissued the token no value
\* computed from an earlier token is left, and an access that does not
\* reissue the token (fresh token, failed refresh) leaves every cached value
\* as it was.
C16_CachesClearedOnReissueOnly ==
    [][AnyAccess =>
          /\ last'.issued =>
                /\ \A k \in IdentityKeys : auth'.identity[k] \in {NoneTok, auth'.token}
                /\ auth'.payload \in {NoPayload, GetPayload(auth'.token)}
                /\ last'.op = "token" => CachedKeys(auth') = {}
          /\ ~last'.issued =>
                /\ \A k \in IdentityKeys :
                      auth.identity[k] # NoneTok => auth'.identity[k] = auth.identity[k]
                /\ auth.payload # NoPayload => auth'.payload = auth.payload]_vars

\* a token access reissued the token while all six values were cached
C16_Witness ==
    /\ last.op = "token" /\ last.issued
    /\ last.had = IdentityKeys \cup {"payload"}
    /\ CachedKeys(auth) = {}

\* C17: after a successful refresh that saved to the cache path, the file's
\* jwt_token is the new in-memory token and the legacy JWT_TOKEN field is
\* gone; a file that held the instance's client_id and client_secret keeps
\* its other fields, any other file is replaced by the instance's client_id,
\* client_secret, refresh_token and the new token.  (A file whose path holds
\* the derived prefix keeps the token alone.)
C17_RefreshSavesMerged ==
    [][(TokenStep /\ last'.issued /\ Truthy(auth.token_info_path)
         /\ files'[auth.token_info_path] # files[auth.token_info_path]) =>
          LET old == files[auth.token_info_path]
              new == files'[auth.token_info_path]
          IN  /\ new.shape = "obj"
              /\ new.jwt_token = auth'.token
              /\ KEY_JWT_TOKEN \in new.keys
              /\ KEY_ALT_JWT_TOKEN \notin new.keys /\ new.JWT_TOKEN = NoneTok
              /\ ~HasJwtPrefix(auth.token_info_path) =>
                    IF /\ old.shape = "obj"
                       /\ old.client_id = auth.client_id
                       /\ old.client_secret = auth.client_secret
                    THEN /\ new.keys = (old.keys \cup {KEY_JWT_TOKEN}) \ {KEY_ALT_JWT_TOKEN}
                         /\ new.client_id = old.client_id
                         /\ new.client_secret = old.client_secret
                         /\ new.refresh_token = old.refresh_token
                         /\ new.scope = old.scope
                    ELSE /\ new.keys = {KEY_CLIENT_ID, KEY_CLIENT_SECRET,
                                        KEY_REFRESH_TOKEN, KEY_JWT_TOKEN}
                         /\ new.client_id = auth.client_id
                         /\ new.client_secret = auth.client_secret
                         /\ new.refresh_token = auth.refresh_token
                         /\ new.scope = NONE]_vars

\* a refresh merged its token into a file holding the same client_id and
\* client_secret, another refresh_token, a scope and the legacy token field
C17_Witness ==
    /\ last.op = "token" /\ last.issued /\ last.raised = "none"
    /\ auth.token_info_path = USERPATH
    /\ files[USERPATH].scope = "sc" /\ files[USERPATH].refresh_token = "r9"
    /\ files[USERPATH].jwt_token = auth.token
    /\ KEY_ALT_JWT_TOKEN \notin files[USERPATH].keys

\* C18: a refresh that fails at the token endpoint (a response that is not
\* 200, or a 200 response with neither access_token nor id_token) raises
\* OauthError and leaves the in-memory token, every cached identity value and
\* the cache file as they were; on a 200 response the new token is
\* access_token when present and id_token otherwise.
C18_FailedExchangeChangesNothing ==
    (auth.constructed /\ ~CredentialsMissing(auth)) =>
        \A resp \in Responses(auth.client_id, now), io \in IoOutcomes :
            LET g == GetToken(auth, env, files, resp, io)
                noToken == resp.access_token = NoneTok /\ resp.id_token = NoneTok
            IN  /\ (resp.kind = "http" /\ (resp.status # 200 \/ noToken)) =>
                      /\ g.raised = "OauthError"
                      /\ g.auth = auth
                      /\ g.files = files
                /\ (resp.kind = "http" /\ resp.status = 200 /\ ~noToken) =>
                      /\ g.issued
                      /\ g.auth.token = (IF resp.access_token # NoneTok
                                          THEN resp.access_token ELSE resp.id_token)

\* a token access whose refresh failed at the endpoint, the instance holding
\* a token and a cached payload
C18_Witness ==
    /\ last.op = "token" /\ last.posted /\ last.inner = "OauthError"
    /\ last.raised = "OauthError"
    /\ auth.token # NoneTok /\ auth.payload # NoPayload

\* C19: within one process, however the session accesses of its threads
\* interleave, the factory is invoked at most once per thread, every access
\* of a thread returns the same session object, and different threads get
\* different session objects.
C19_OneSessionPerThread ==
    /\ \A t \in Threads : sess.made[t] <= 1 /\ Cardinality(sess.got[t]) <= 1
    /\ \A t, u \in Threads : t # u => sess.got[t] \cap sess.got[u] = {}
    /\ sess.raised = "none"

\* C20: after a fork no session access in the child returns a session that
\* was created under another process id: the first access of a thread
\* returns a session built in the child, whatever was inherited.
C20_NoSessionAcrossFork ==
    /\ \A t \in Threads : \A s \in sess.got[t] : s.pid = sess.pid /\ s \notin sess.inherited
    /\ sess.ret # NoSession => sess.ret.pid = sess.pid

\* C22: each access to identity information keeps the token fresh: when the
\* token is absent or within leeway of expiry as the access starts, a
\* refresh is attempted before the value is returned.
C22_IdentityAccessRefreshes ==
    [][(auth.constructed /\ last'.op \in {"payload", "identity"}
         /\ (auth.token = NoneTok
              \/ (~PayloadRaises(auth.token) /\ NeedsRefresh(auth, now)))) =>
          last'.attempted]_vars

(***************************************************************************)
(* SpecClaims: the identity view over the claims of tokens.  The claims    *)
(* are drawn from bounded sets; the token is replaced by _get_token, which *)
(* clears the cached values.                                               *)
(***************************************************************************)
GroupPool ==
    {<<"global-role">>, <<"acme", "device-admin">>, <<"other", "device-admin">>,
     <<"acme", ORG_ADMIN>>, <<"", ORG_ADMIN>>, <<"res1", RESOURCE_ADMIN>>}

RECURSIVE SeqsUpTo(_, _)
SeqsUpTo(S, n) ==
    IF n = 0 THEN {<<>>}
    ELSE LET shorter == SeqsUpTo(S, n - 1)
         IN  shorter \cup {Append(q, x) : q \in shorter, x \in S}

ClaimSets ==
    {[userid |-> u, dl_userid |-> du, sub |-> "auth0|7", email |-> em, org |-> og,
      hasGroups |-> TRUE, groups |-> gs] :
        u \in {NONE, "", "u1"}, du \in {NONE, "u2"}, em \in {NONE, "", "Ann@X.io"},
        og \in {NONE, "", "acme"}, gs \in SeqsUpTo(GroupPool, MaxGroups)}
    \cup {[NoClaims EXCEPT !.sub = "auth0|7"]}

\* the claims of the tokens a refresh brings
NextClaims ==
    {[userid |-> "u3", dl_userid |-> NONE, sub |-> "auth0|8", email |-> "BOB@y.IO",
      org |-> "other", hasGroups |-> TRUE,
      groups |-> <<<<"other", "device-admin">>, <<"acme", ORG_ADMIN>>>>],
     [NoClaims EXCEPT !.sub = "auth0|8"]}

InitClaims ==
    /\ auth = NoAuth
    /\ env = EmptyEnv
    /\ files = AllMissing
    /\ now = 0
    /\ last = Idle
    /\ call = NoArgs
    /\ wr = NoWrites
    /\ sess = NoSessions
    /\ thr = NoThreads
    /\ dflt = NoDefault
    /\ cat = NoCatalog
    /\ \E raw \in ClaimSets : idn = [NoView EXCEPT !.claims = raw]

ClaimsFrame == UNCHANGED <<auth, env, files, now, last, call, wr, sess, thr, dflt, cat>>

ReadPayload ==
    /\ idn' = [ViewPayload(idn) EXCEPT !.op = "payload"]
    /\ ClaimsFrame

ReadNamespace ==
    /\ idn' = [ViewNamespace(idn) EXCEPT !.op = "namespace"]
    /\ ClaimsFrame

ReadAllAclSubjects ==
    /\ idn' = [ViewAllAclSubjects(idn) EXCEPT !.op = "all_acl_subjects"]
    /\ ClaimsFrame

ReadAllOwnerAclSubjects ==
    /\ idn' = [ViewAllOwnerAclSubjects(idn) EXCEPT !.op = "all_owner_acl_subjects"]
    /\ ClaimsFrame

NewToken ==
    /\ idn.op # "init"
    /\ \E raw \in NextClaims : idn' = [ViewNewToken(idn, raw) EXCEPT !.op = "token"]
    /\ ClaimsFrame

NextClaimsStep ==
    \/ ReadPayload
    \/ ReadNamespace
    \/ ReadAllAclSubjects
    \/ ReadAllOwnerAclSubjects
    \/ NewToken

SpecClaims == InitClaims /\ [][NextClaimsStep]_vars

\* the claims as Auth.payload exposes them
Exposed == Doctor(idn.claims)

RECURSIVE Count(_, _)
Count(q, x) ==
    IF q = <<>> THEN 0 ELSE (IF Head(q) = x THEN 1 ELSE 0) + Count(Tail(q), x)

Range(q) == {q[i] : i \in 1..Len(q)}

\* C23: the namespace is the userid claim when that claim is present and
\* non-empty, otherwise the SHA-1 hex digest of the sub claim, of the
\* claims of the current token.
C23_Namespace ==
    idn.namespace # NONE =>
        idn.namespace = (IF Exposed.userid \notin {NONE, ""}
                         THEN Exposed.userid ELSE Sha1Hex(Exposed.sub))

C23_Witness ==
    /\ idn.op = "namespace"
    /\ idn.claims \in NextClaims
    /\ idn.namespace = Sha1Hex("auth0|8")

RECURSIVE ExpectedGroups(_, _)
\* "group:"+g for the active groups of a claim, in claim order
ExpectedGroups(org, gs) ==
    IF gs = <<>> THEN <<>>
    ELSE LET g == Head(gs)
             colon == Len(g) > 1
             rest == ExpectedGroups(org, Tail(gs))
         IN  IF ~colon \/ (org \notin {NONE, ""} /\ g[1] = org)
             THEN <<"group:" \o GroupText(g)>> \o rest ELSE rest

\* C24: all_acl_subjects is the user subject, the lowercased email if there
\* is one, the org if there is one, then the active groups in claim order;
\* a group without a colon is always active, one with a colon only when the
\* part before its first colon is the current org.
C24_AllAclSubjects ==
    idn.all_acl_subjects # <<>> =>
        /\ idn.namespace # NONE
        /\ idn.all_acl_subjects =
              <<"user:" \o idn.namespace>>
              \o (IF Exposed.email \in {NONE, ""} THEN <<>>
                  ELSE <<"email:" \o Lower(Exposed.email)>>)
              \o (IF Exposed.org \in {NONE, ""} THEN <<>>
                  ELSE <<"org:" \o Exposed.org>>)
              \o ExpectedGroups(Exposed.org, Exposed.groups)
        /\ <<"acme", "device-admin">> \in Range(Exposed.groups) =>
              ("group:acme:device-admin" \in Range(idn.all_acl_subjects)
                 <=> Exposed.org = "acme")
        /\ <<"global-role">> \in Range(Exposed.groups) =>
              "group:global-role" \in Range(idn.all_acl_subjects)

C24_Witness ==
    /\ idn.op = "all_acl_subjects"
    /\ idn.all_acl_subjects =
          <<"user:u2", "email:ann@x.io", "org:acme", "group:global-role",
            "group:acme:device-admin">>

RECURSIVE ExpectedAdmins(_, _, _)
\* prefix+X for each group X+":"+tail with X non-empty, in claim order
ExpectedAdmins(prefix, tail, gs) ==
    IF gs = <<>> THEN <<>>
    ELSE LET g == Head(gs)
             rest == ExpectedAdmins(prefix, tail, Tail(gs))
             x == GroupText(SubSeq(g, 1, Len(g) - 1))
         IN  IF Len(g) >= 2 /\ g[Len(g)] = tail /\ x # ""
             THEN <<prefix \o x>> \o rest ELSE rest

\* C25: all_owner_acl_subjects is the user subject, then "org:"+X for each
\* group X+":org-admin" with X non-empty, then "access-id:"+Y for each
\* group Y+":resource-admin" with Y non-empty, in claim order; for the one
\* group "acme:org-admin" and org "acme", "org:acme" occurs exactly once.
C25_AllOwnerAclSubjects ==
    idn.all_owner_acl_subjects # <<>> =>
        /\ idn.namespace # NONE
        /\ idn.all_owner_acl_subjects =
              <<"user:" \o idn.namespace>>
              \o ExpectedAdmins("org:", "org-admin", Exposed.groups)
              \o ExpectedAdmins("access-id:", "resource-admin", Exposed.groups)
        /\ (Exposed.groups = <<<<"acme", "org-admin">>>> /\ Exposed.org = "acme") =>
              Count(idn.all_owner_acl_subjects, "org:acme") = 1

C25_Witness ==
    /\ idn.op = "all_owner_acl_subjects"
    /\ idn.claims.groups = <<<<"acme", "org-admin">>>>
    /\ idn.claims.org = "acme"
    /\ Count(idn.all_owner_acl_subjects, "org:acme") = 1

(***************************************************************************)
(* SpecRace: the threads of one process read Auth.token of one instance.   *)
(* Nothing locks the instance: a step is one read or write of the shared   *)
(* fields (_token, __dict__, the cache file); the request and the rest of  *)
(* a thread's work between two such steps is local to it.  The cache file  *)
(* is replaced by the one rename of _write_token_info.                     *)
(***************************************************************************)
RaceToken == Jwt(1, "c1", 0)

RaceAuth(tok, path, cached) ==
    [NoAuth EXCEPT !.constructed = TRUE, !.client_id = "c1", !.client_secret = "s1",
                   !.refresh_token = "s1", !.token = tok, !.token_info_path = path,
                   !.leeway = 1,
                   !.payload = IF "payload" \in cached THEN GetPayload(tok) ELSE NoPayload,
                   !.identity = [k \in IdentityKeys |->
                                    IF k \in cached THEN tok ELSE NoneTok]]

\* the token the token endpoint issues to a thread's request
ThreadNo(x) == IF x = "t1" THEN 1 ELSE 2

RaceResponses(x) ==
    {[kind |-> "http", status |-> 500, access_token |-> NoneTok, id_token |-> NoneTok],
     [kind |-> "http", status |-> 200,
      access_token |-> Jwt(1 + ThreadNo(x), "c1", ThreadNo(x)), id_token |-> NoneTok]}

InitRace ==
    /\ env = EmptyEnv
    /\ now = 1
    /\ last = Idle
    /\ call = NoArgs
    /\ wr = NoWrites
    /\ sess = NoSessions
    /\ idn = NoView
    /\ dflt = NoDefault
    /\ cat = NoCatalog
    /\ thr = NoThreads
    /\ \E path \in {NONE, USERPATH} :
       \E c \in {Missing, Obj("c1", "s1", "s1", RaceToken, NoneTok, NONE)} :
          /\ files = OneFile(USERPATH, c)
          /\ \/ auth = RaceAuth(NoneTok, path, {})
             \/ \E cached \in {{}, {"payload"}, {"payload", "namespace", "all_acl_subjects"}} :
                   auth = RaceAuth(RaceToken, path, cached)

RaceFrame == UNCHANGED <<env, now, last, call, wr, sess, idn, dflt, cat>>

SetThread(x, th) == thr' = [thr EXCEPT ![x] = th]

\* an exception leaves _get_token: lines 581-584 swallow it or let it pass
Handled(th, raised) ==
    IF th.tried /\ IsAuthError(raised) /\ ~TokenExpired(th.payload, 0, now)
    THEN [th EXCEPT !.pc = "return"]
    ELSE [th EXCEPT !.pc = "done", !.raised = raised]

\* line 575: if self._token is None
Enter(x) ==
    /\ thr[x].pc = "out"
    /\ SetThread(x, [thr[x] EXCEPT !.pc = IF auth.token = NoneTok
                                          THEN "request" ELSE "decode"])
    /\ UNCHANGED <<auth, files>>
    /\ RaceFrame

\* lines 577-578: the payload of the token now stored, and the first expiry check
Decode(x) ==
    /\ thr[x].pc = "decode"
    /\ SetThread(x, IF PayloadRaises(auth.token)
                     THEN [thr[x] EXCEPT !.pc = "done", !.raised = "AuthError"]
                     ELSE [thr[x] EXCEPT !.payload = GetPayload(auth.token),
                                         !.tried = NeedsRefresh(auth, now),
                                         !.pc = IF NeedsRefresh(auth, now)
                                                THEN "request" ELSE "return"])
    /\ UNCHANGED <<auth, files>>
    /\ RaceFrame

\* _get_token lines 750-795: the request, and the token stored in self._token
Request(x) ==
    /\ thr[x].pc = "request"
    /\ IF CredentialsMissing(auth)
       THEN /\ SetThread(x, Handled(thr[x], "AuthError"))
            /\ UNCHANGED auth
       ELSE \E resp \in RaceResponses(x) :
              IF ExchangeRaised(resp) # "none"
              THEN /\ SetThread(x, Handled(thr[x], ExchangeRaised(resp)))
                   /\ UNCHANGED auth
              ELSE /\ auth' = [auth EXCEPT !.token = IssuedToken(resp)]
                   /\ SetThread(x, [thr[x] EXCEPT !.pc = "clear", !.key = 1,
                                                   !.mine = IssuedToken(resp)])
    /\ UNCHANGED files
    /\ RaceFrame

\* after the key at th.key: the next key, or line 961 and lines 800-803
AfterKey(au, th) ==
    IF th.key < Len(ClearOrder)
    THEN [auth |-> au, th |-> [th EXCEPT !.pc = "clear", !.key = @ + 1]]
    ELSE [auth |-> [au EXCEPT !.identity["namespace"] = NoneTok],
          th |-> [th EXCEPT !.pc = IF Truthy(au.token_info_path)
                                   THEN "read" ELSE "return"]]

\* _clear_cache line 959: if key in self.__dict__
ClearCheck(x) ==
    /\ thr[x].pc = "clear"
    /\ IF ClearOrder[thr[x].key] \in CachedKeys(auth)
       THEN /\ SetThread(x, [thr[x] EXCEPT !.pc = "del"])
            /\ UNCHANGED auth
       ELSE /\ auth' = AfterKey(auth, thr[x]).auth
            /\ SetThread(x, AfterKey(auth, thr[x]).th)
    /\ UNCHANGED files
    /\ RaceFrame

\* _clear_cache line 960: del self.__dict__[key], a KeyError when the key is gone
ClearDel(x) ==
    /\ thr[x].pc = "del"
    /\ IF ClearOrder[thr[x].key] \in CachedKeys(auth)
       THEN LET au1 == DelKey(auth, ClearOrder[thr[x].key])
            IN  /\ auth' = AfterKey(au1, thr[x]).auth
                /\ SetThread(x, AfterKey(au1, thr[x]).th)
       ELSE /\ SetThread(x, Handled(thr[x], "KeyError"))
            /\ UNCHANGED auth
    /\ UNCHANGED files
    /\ RaceFrame

\* lines 804-806: the token_info read back from the cache file
ReadBack(x) ==
    /\ thr[x].pc = "read"
    /\ LET info == ReadTokenInfo(files, env, auth.token_info_path)
       IN  SetThread(x, IF GetRaises(info) THEN Handled(thr[x], "AttributeError")
                        ELSE [thr[x] EXCEPT !.info = info, !.pc = "merge"])
    /\ UNCHANGED <<auth, files>>
    /\ RaceFrame

\* lines 808-820: the token_info to write, with the token now in self._token
Merge(x) ==
    /\ thr[x].pc = "merge"
    /\ SetThread(x, [thr[x] EXCEPT !.info = MergedTokenInfo(auth, thr[x].info, auth.token),
                                    !.pc = "write"])
    /\ UNCHANGED <<auth, files>>
    /\ RaceFrame

\* line 821: _write_token_info, whose rename replaces the file at once
WriteBack(x) ==
    /\ thr[x].pc = "write"
    /\ files' = WriteTokenInfo(files, auth.token_info_path, thr[x].info, "ok")
    /\ SetThread(x, [thr[x] EXCEPT !.pc = "return"])
    /\ UNCHANGED auth
    /\ RaceFrame

\* line 586: return self._token
Return(x) ==
    /\ thr[x].pc = "return"
    /\ SetThread(x, [thr[x] EXCEPT !.pc = IF thr[x].reads THEN "store" ELSE "done",
                                    !.ret = auth.token])
    /\ UNCHANGED <<auth, files>>
    /\ RaceFrame

NextRace ==
    \E x \in Threads :
        \/ Enter(x)
        \/ Decode(x)
        \/ Request(x)
        \/ ClearCheck(x)
        \/ ClearDel(x)
        \/ ReadBack(x)
        \/ Merge(x)
        \/ WriteBack(x)
        \/ Return(x)

SpecRace == InitRace /\ [][NextRace]_vars

\* the tokens issued to the refreshes that succeeded
IssuedToThreads == {thr[x].mine : x \in Threads} \ {NoneTok}

\* C21: when all concurrent token accesses are over and more than one of
\* them refreshed successfully, the token in memory is one issued to those
\* refreshes, every access returned an issued token, and the cache file
\* holds one complete token_info written by one of the refreshes.
C21_ConcurrentRefresh ==
    ((\A x \in Threads : thr[x].pc = "done") /\ Cardinality(IssuedToThreads) > 1) =>
        /\ auth.token \in IssuedToThreads
        /\ \A x \in Threads : thr[x].raised = "none" /\ thr[x].ret \in IssuedToThreads
        /\ Truthy(auth.token_info_path) =>
              \E tok \in IssuedToThreads :
                  files[auth.token_info_path] =
                      Obj("c1", "s1", "s1", tok, NoneTok, NONE)

\* the instance has no client id, or neither client secret nor refresh token
NoCredentials ==
    \/ auth.client_id = NONE
    \/ auth.client_secret = NONE /\ auth.refresh_token = NONE

\* C27: an instance holding a short-lived token but no client id, or
\* neither client secret nor refresh token, never contacts the token
\* endpoint: a token access returns the same token while the clock has not
\* passed its expiry, inside the leeway window too, and raises AuthError
\* once it has.
C27_TokenOnlyNeverRequests ==
    [][(TokenStep /\ NoCredentials /\ HasExp(auth.token)) =>
          /\ ~last'.posted
          /\ auth' = auth /\ files' = files
          /\ now <= auth.token.exp =>
                (last'.raised = "none" /\ last'.ret = auth.token)
          /\ now > auth.token.exp => last'.raised = "AuthError"]_vars

\* a token inside the leeway window is served by an instance without credentials
C27_Witness ==
    /\ last.op = "token"
    /\ NoCredentials /\ HasExp(auth.token)
    /\ now + auth.leeway > auth.token.exp /\ now <= auth.token.exp
    /\ last.attempted /\ ~last.posted
    /\ last.raised = "none" /\ last.ret = auth.token

(***************************************************************************)
(* SpecShare: instances built one after the other in one environment, on   *)
(* one file system.  The cache files an instance leaves are there for the  *)
(* next one; auth is the instance in use.                                  *)
(***************************************************************************)
ShareToken == Jwt(2, "c1", 0)

\* the instances built: with the secret s1 with and without a cache path,
\* with another secret without one
ShareArgs ==
    {a \in [client_id : {"c1"}, client_secret : {"s1", "s2"}, refresh_token : {NONE},
            jwt_token : {NoneTok, ShareToken}, token_info_path : {SENTINEL, NONE},
            scope : {NONE}, leeway : {0}, suppress : {FALSE}] :
        /\ a.client_secret = "s2" => a.token_info_path = NONE
        /\ a.jwt_token # NoneTok => a.token_info_path = SENTINEL}

ShareEnvs == {EmptyEnv, [EmptyEnv EXCEPT !.EARTHONE_TOKEN_INFO_PATH = ENVPATH]}

ShareContent == Obj("c1", "s1", "s1", ShareToken, NoneTok, "sc")

ShareFiles ==
    {AllMissing,
     [AllMissing EXCEPT ![DEFAULT_TOKEN_INFO_PATH] = ShareContent,
                        ![ENVPATH] = ShareContent]}

InitShare ==
    /\ auth = NoAuth
    /\ env \in ShareEnvs
    /\ files \in ShareFiles
    /\ now = 0
    /\ last = Idle
    /\ call = NoArgs
    /\ wr = NoWrites
    /\ sess = NoSessions
    /\ thr = NoThreads
    /\ idn = NoView
    /\ dflt = NoDefault
    /\ cat = NoCatalog

\* a new instance is built and takes the place of the one in use
Build ==
    \E a \in ShareArgs :
        \E io \in (IF ConstructWrites(a, env) THEN IoOutcomes ELSE {"ok"}) :
            ConstructStep(a, io)

NextShare == Build \/ DoToken \/ DoPayload \/ Tick

SpecShare == InitShare /\ [][NextShare]_vars

\* file systems to compare with: every path holds the same content
ProbeFiles ==
    {[p \in Paths |-> c] :
        c \in {Missing, NonObject,
               Obj("c1", "s1", "s1", Jwt(MaxTime, "c1", 7), NoneTok, "sc")}}

\* an access does the same whatever the files hold, and leaves them alone
SameOnAnyFiles(access(_, _, _, _, _, _, _)) ==
    \A d \in Delays, resp \in Responses(auth.client_id, now) :
        LET r == access(auth, env, files, now, d, resp, "ok")
        IN  /\ r.files = files
            /\ r.auth.token_info_path = NONE
            /\ \A fs \in ProbeFiles :
                   access(auth, env, fs, now, d, resp, "ok") = [r EXCEPT !.files = fs]

\* C26: an instance built with token_info_path None never reads or writes
\* a cache file, at construction or later: its construction and its
\* accesses change no file, keep no cache path, and do the same whatever
\* the files contain.
C26_NoCacheWithoutPath ==
    (auth.constructed /\ call.token_info_path = NONE) =>
        /\ auth.token_info_path = NONE
        /\ LET r == Construct(call, env, files, now, "ok")
           IN  /\ r.raised = "none" /\ r.files = files
               /\ r.auth.token_info_path = NONE
               /\ \A fs \in ProbeFiles :
                      Construct(call, env, fs, now, "ok") = [r EXCEPT !.files = fs]
        /\ SameOnAnyFiles(TokenAccess)
        /\ SameOnAnyFiles(PayloadAccess)

\* an instance without a cache path refreshed its token while cache files exist
C26_Witness ==
    /\ call.token_info_path = NONE
    /\ last.op = "token" /\ last.issued
    /\ files[ENVPATH] = ShareContent
    /\ env.EARTHONE_TOKEN_INFO_PATH = ENVPATH

\* the instance in use was built from a client id and a secret alone
BuiltFromSecret ==
    /\ auth.constructed
    /\ call.client_id # NONE /\ call.client_secret # NONE
    /\ call.jwt_token = NoneTok /\ call.token_info_path = SENTINEL
    /\ env.EARTHONE_NO_JWT_CACHE = NONE

\* C28: after an instance built from a client id and a secret (no cache
\* path, no token) has refreshed its token and saved it, an instance built
\* later with the same client id and secret holds that token after
\* construction as long as it has not expired, and serves it without a
\* request while it is not within leeway; what an instance built with
\* another secret holds does not depend on that cache file.
C28_TokenSharedBetweenInstances ==
    (/\ BuiltFromSecret
     /\ last.op \in {"token", "payload"} /\ last.issued /\ last.raised = "none"
     /\ HasExp(auth.token)
     /\ files[auth.token_info_path].jwt_token = auth.token) =>
        \A t \in now..MaxTime, lw \in 0..MaxLeeway :
            LET same == Construct([call EXCEPT !.leeway = lw], env, files, t, "ok").auth
                otherArgs == [call EXCEPT !.client_secret =
                                              IF call.client_secret = "s1" THEN "s2" ELSE "s1"]
                without == [files EXCEPT ![auth.token_info_path] = Missing]
            IN  /\ t <= auth.token.exp =>
                      /\ same.token = auth.token
                      /\ t + lw <= auth.token.exp =>
                            \A d \in Delays, resp \in Responses(same.client_id, t) :
                                LET r == TokenAccess(same, env, files, t, d, resp, "ok")
                                IN  ~r.posted /\ r.raised = "none" /\ r.ret = auth.token
                /\ Construct(otherArgs, env, files, t, "ok").auth =
                      Construct(otherArgs, env, without, t, "ok").auth

\* an instance built after a refresh of an earlier one holds the token issued then
C28_Witness ==
    /\ BuiltFromSecret
    /\ last.op = "construct" /\ last.mode = "derived"
    /\ auth.token.n = 1
    /\ files[auth.token_info_path].jwt_token = auth.token

\* the instance was built from supplied credentials with a cache path given
\* as argument
ExplicitWithPath == Constructed /\ last.mode = "explicit_path"

\* the token of the cache file is to be adopted: no token was supplied and
\* the file's client_id and refresh_token are the resolved ones
C29_Adopts ==
    LET info == ReadTokenInfo(files, env, call.token_info_path)
    IN  /\ FileExists(files, call.token_info_path)
        /\ ~TruthyTok(ArgToken(call, env))
        /\ info.client_id = ArgClientId(call, env)
        /\ info.refresh_token = EnsuredRefreshToken(call, env)

\* the token the instance holds is the file's exactly when it is to be adopted
C29_TokenFromFileIffMatch ==
    ExplicitWithPath =>
        auth.token =
            ValidatedToken(IF C29_Adopts
                           THEN ReadTokenInfo(files, env, call.token_info_path).jwt_token
                           ELSE ArgToken(call, env),
                           auth.client_id, now)

\* C29: with credentials supplied and a cache path given as argument, the
\* file's token is adopted exactly when no token was supplied and the
\* file's client_id and refresh_token equal the resolved ones, and nothing
\* else comes from the file: client_id, client_secret, refresh_token and
\* scope are what they are without the file.
C29_ExplicitPathOnlyToken ==
    ExplicitWithPath =>
        LET bare == Construct(call, env, AllMissing, now, "ok").auth
        IN  /\ C29_TokenFromFileIffMatch
            /\ auth.client_id = bare.client_id
            /\ auth.client_secret = bare.client_secret
            /\ auth.refresh_token = bare.refresh_token
            /\ auth.scope = bare.scope

\* nothing was supplied by argument or environment, and a cache path is set
NothingSupplied ==
    /\ call.client_id = NONE /\ call.client_secret = NONE
    /\ call.refresh_token = NONE /\ call.jwt_token = NoneTok
    /\ env.EARTHONE_CLIENT_ID = NONE /\ env.CLIENT_ID = NONE
    /\ env.EARTHONE_CLIENT_SECRET = NONE /\ env.CLIENT_SECRET = NONE
    /\ env.EARTHONE_REFRESH_TOKEN = NONE /\ env.EARTHONE_TOKEN = NoneTok
    /\ call.token_info_path # NONE

\* the cache path configured: the argument, else the environment's, else the default
ConfiguredPath ==
    IF call.token_info_path # SENTINEL THEN call.token_info_path
    ELSE IF env.EARTHONE_TOKEN_INFO_PATH # NONE THEN env.EARTHONE_TOKEN_INFO_PATH
    ELSE DEFAULT_TOKEN_INFO_PATH

\* C30: when nothing is supplied by argument or environment and a cache
\* path is configured, the credentials are the file's: its client_id, its
\* client_secret and refresh_token (made equal, the refresh token first),
\* and its token, the legacy JWT_TOKEN when present and jwt_token
\* otherwise, kept when it is valid.
C30_AllFromFile ==
    (Constructed /\ NothingSupplied) =>
        LET info == ReadTokenInfo(files, env, ConfiguredPath)
            secret == IF info.refresh_token \notin {NONE, ""} THEN info.refresh_token
                      ELSE info.client_secret
            refresh == IF info.refresh_token \notin {NONE, ""} THEN info.refresh_token
                       ELSE IF info.client_secret \notin {NONE, ""} THEN info.client_secret
                       ELSE info.refresh_token
            tok == IF info.JWT_TOKEN # NoneTok THEN info.JWT_TOKEN ELSE info.jwt_token
        IN  /\ last.mode = "file"
            /\ auth.client_id = info.client_id
            /\ auth.client_secret = secret
            /\ auth.refresh_token = refresh
            /\ auth.token \in {tok, NoneTok}
            /\ auth.token = ValidatedToken(tok, info.client_id, now)

\* a file with both token fields: the legacy one is the instance's token
C30_Witness ==
    /\ Constructed /\ NothingSupplied
    /\ files[ConfiguredPath].JWT_TOKEN = AltToken
    /\ files[ConfiguredPath].jwt_token # NoneTok
    /\ auth.token = AltToken
    /\ auth.client_id = "c1" /\ auth.client_secret = "s1"

(***************************************************************************)
(* SpecDefault: the threads of a process call Auth.get_default_auth and    *)
(* Auth.set_default_auth.  Nothing locks Auth._instance: a step is one     *)
(* read or write of it.                                                    *)
(***************************************************************************)
InitDefault ==
    /\ auth = NoAuth
    /\ env = EmptyEnv
    /\ files = AllMissing
    /\ now = 0
    /\ last = Idle
    /\ call = NoArgs
    /\ wr = NoWrites
    /\ sess = NoSessions
    /\ thr = NoThreads
    /\ idn = NoView
    /\ dflt = NoDefault
    /\ cat = NoCatalog

DefaultFrame ==
    UNCHANGED <<auth, env, files, now, last, call, wr, sess, thr, idn, cat>>

SetCaller(x, c) == [dflt EXCEPT !.th[x] = c]

\* line 664: if Auth._instance is None
DefaultCheck(x) ==
    /\ dflt.th[x].pc = "out"
    /\ dflt.th[x].calls < MaxCalls
    /\ dflt' = SetCaller(x, [dflt.th[x] EXCEPT
                                !.pc = IF dflt.instance = NoInstance
                                       THEN "make" ELSE "return",
                                !.calls = @ + 1, !.since = Len(dflt.sets)])
    /\ DefaultFrame

\* line 665: Auth._instance = Auth()
DefaultMake(x) ==
    /\ dflt.th[x].pc = "make"
    /\ dflt' = [SetCaller(x, [dflt.th[x] EXCEPT !.pc = "return"]) EXCEPT
                   !.instance = dflt.made + 1, !.made = @ + 1,
                   !.born = Append(@, Len(dflt.sets))]
    /\ DefaultFrame

\* line 667: return Auth._instance
DefaultReturn(x) ==
    /\ dflt.th[x].pc = "return"
    /\ dflt' = [SetCaller(x, [dflt.th[x] EXCEPT !.pc = "out",
                                                 !.ret = dflt.instance]) EXCEPT
                   !.rets = IF dflt.th[x].since = Len(dflt.sets)
                            THEN @ \cup {[after |-> Len(dflt.sets),
                                          instance |-> dflt.instance]}
                            ELSE @]
    /\ DefaultFrame

\* line 676: Auth._instance = auth (None from clear_client_state)
set_default_auth(a) ==
    /\ Len(dflt.sets) < MaxSets
    /\ dflt' = [dflt EXCEPT !.instance = a, !.sets = Append(@, a)]
    /\ DefaultFrame

NextDefault ==
    \/ \E x \in Threads : DefaultCheck(x) \/ DefaultMake(x) \/ DefaultReturn(x)
    \/ \E a \in {NoInstance, GivenAuth} : set_default_auth(a)

SpecDefault == InitDefault /\ [][NextDefault]_vars

\* C31: the get_default_auth calls made between two set_default_auth calls
\* all return the same instance; after set_default_auth(a) they return a;
\* after set_default_auth(None), and at the start, they return an instance
\* built since.
C31_DefaultAuthStable ==
    \A r \in dflt.rets :
        /\ \A q \in dflt.rets : q.after = r.after => q.instance = r.instance
        /\ r.instance # NoInstance
        /\ (r.after > 0 /\ dflt.sets[r.after] # NoInstance) =>
              r.instance = dflt.sets[r.after]
        /\ (r.after = 0 \/ dflt.sets[r.after] = NoInstance) =>
              (r.instance \in 1..dflt.made /\ dflt.born[r.instance] = r.after)

(***************************************************************************)
(* SpecCatalog: one catalog object, built by its constructor or got from   *)
(* the service, and the update, save, reload and delete calls on it.       *)
(***************************************************************************)
\* the object as the service holds it: what the client sent, created filled in
Stored(c) == [c.attrs EXCEPT !["created"] = "t1"]

\* the object as the service may return it on a reload
Reloaded(c) == {Stored(c), [Stored(c) EXCEPT !["name"] = "b"]}

CatalogResponses == {"ok", "NotFoundError", "ServerError"}

KwargNames == AttrNames \cup {"bogus"}

Kwargs ==
    {q \in SeqsUpTo([name : KwargNames, val : {"a", "b", BadValue}], MaxKwargs) :
        q # <<>> /\ \A i, j \in 1..Len(q) : i # j => q[i].name # q[j].name}

InitCatalog ==
    /\ auth = NoAuth
    /\ env = EmptyEnv
    /\ files = AllMissing
    /\ now = 0
    /\ last = Idle
    /\ call = NoArgs
    /\ wr = NoWrites
    /\ sess = NoSessions
    /\ thr = NoThreads
    /\ idn = NoView
    /\ dflt = NoDefault
    /\ \/ cat = UpdateLoop(NoCatalog, NoCatalog,
                           <<[name |-> "id", val |-> "x"], [name |-> "name", val |-> "a"]>>,
                           FALSE).cat
       \/ cat = Initialize(NoCatalog, [NoCatalog.attrs EXCEPT !["id"] = "x",
                                                              !["name"] = "a",
                                                              !["created"] = "t1"])

CatalogFrame ==
    UNCHANGED <<auth, env, files, now, last, call, wr, sess, thr, idn, dflt>>

DoUpdate ==
    /\ \E kwargs \in Kwargs, ignore_errors \in BOOLEAN :
          cat' = update(cat, kwargs, ignore_errors)
    /\ CatalogFrame

DoSave ==
    /\ \E params \in BOOLEAN, resp \in CatalogResponses :
          cat' = save(cat, params, resp, Stored(cat))
    /\ CatalogFrame

DoReload ==
    /\ \E resp \in CatalogResponses, values \in Reloaded(cat) :
          cat' = reload(cat, resp, values)
    /\ CatalogFrame

DoDelete ==
    /\ \E resp \in CatalogResponses : cat' = delete(cat, resp)
    /\ CatalogFrame

NextCatalog == DoUpdate \/ DoSave \/ DoReload \/ DoDelete

SpecCatalog == InitCatalog /\ [][NextCatalog]_vars

\* a step that is a call of save
SaveCalled == cat' # cat /\ cat'.last.op = "save"

\* the fields of the object
Fields(c) == <<c.attrs, c.modified, c.saved, c.deleted>>

\* what save does up to the answer to its request
SaveRequest ==
    /\ State(cat) = "SAVED" /\ ~cat'.last.params
          => cat'.last.method = "none" /\ Fields(cat') = Fields(cat)
    /\ State(cat) = "UNSAVED"
          => /\ cat'.last.method = "POST"
             /\ cat'.last.sent = {n \in AttrNames : cat.attrs[n] # NONE /\ n # "id"}
             /\ cat'.last.docid = cat.attrs["id"]
    /\ State(cat) = "MODIFIED"
          => cat'.last.method = "PATCH" /\ cat'.last.sent = cat.modified
    /\ cat'.last.method # "none" /\ cat'.last.raised = "none"
          => State(cat') = "SAVED" /\ cat'.modified = {}

\* C32 as it stands: save does nothing on a SAVED object without
\* request_params, POSTs all attributes of an UNSAVED one, PATCHes the modified
\* attributes of a MODIFIED one, leaves the object SAVED with an empty modified
\* set when it succeeds, and in the state it had when its request fails.
C32_SaveAsStated ==
    [][SaveCalled =>
         /\ SaveRequest
         /\ cat'.last.method # "none" /\ cat'.last.raised # "none"
               => State(cat') = State(cat)]_vars

\* C32, amended: as above, but a request that fails leaves the object as it
\* was only when the failure is not NotFoundError; on NotFoundError the object
\* becomes DELETED and DeletedObjectError is raised.
C32_Save ==
    [][SaveCalled =>
         /\ SaveRequest
         /\ cat'.last.method # "none" /\ cat'.last.raised = "ServerError"
               => Fields(cat') = Fields(cat)
         /\ cat'.last.method # "none" /\ cat'.last.raised = "DeletedObjectError"
               => State(cat') = "DELETED"]_vars

C32_Witness ==
    /\ cat.last.op = "save" /\ cat.last.method = "PATCH"
    /\ cat.last.sent = {"name"} /\ cat.last.raised = "none"
    /\ State(cat) = "SAVED"

\* C33: DELETED is absorbing.  An object becomes DELETED by a successful
\* delete() or by a call whose request is answered NotFoundError; from then on
\* every save, reload, update and delete raises DeletedObjectError, sends no
\* request and leaves the object DELETED.  delete() on an UNSAVED object raises
\* UnsavedObjectError, sends nothing and leaves it UNSAVED.
C33_DeletedAbsorbing ==
    [][cat' # cat =>
         /\ cat.deleted
               => /\ cat'.last.raised = "DeletedObjectError"
                  /\ cat'.last.method = "none"
                  /\ cat'.deleted /\ Fields(cat') = Fields(cat)
         /\ ~cat.deleted /\ cat'.last.method = "DELETE" /\ cat'.last.raised = "none"
               => cat'.deleted
         /\ ~cat.deleted /\ cat'.last.method # "none"
                        /\ cat'.last.raised = "DeletedObjectError"
               => cat'.deleted
         /\ ~cat.deleted /\ ~cat.saved /\ cat'.last.op = "delete"
               => /\ cat'.last.raised = "UnsavedObjectError"
                  /\ cat'.last.method = "none"
                  /\ Fields(cat') = Fields(cat)]_vars

C33_Witness ==
    /\ cat.deleted /\ cat.last.op = "reload"
    /\ cat.last.raised = "DeletedObjectError" /\ cat.last.method = "none"

\* setting the attribute kw of the object c is refused
Fails(c, kw) ==
    \/ kw.name \notin AttrNames
    \/ kw.name = "created"
    \/ kw.name = "id" /\ c.attrs["id"] # NONE
    \/ kw.val = BadValue

\* the attributes of kwargs that can be set on c
Settable(c, kwargs) == {i \in 1..Len(kwargs) : ~Fails(c, kwargs[i])}

\* C34: on an object that is not DELETED, update(**kwargs) either sets every
\* attribute or raises AttributeError or AttributeValidationError and leaves
\* the attribute values, the modified set and the state as they were; with
\* ignore_errors=True it raises nothing, sets exactly the attributes that can
\* be set and leaves the others alone.
C34_UpdateAllOrNothing ==
    ~cat.deleted =>
        \A kwargs \in Kwargs :
            LET strict == update(cat, kwargs, FALSE)
                lenient == update(cat, kwargs, TRUE)
                set == Settable(cat, kwargs)
            IN  /\ IF set = 1..Len(kwargs)
                   THEN /\ strict.last.raised = "none"
                        /\ \A i \in set : strict.attrs[kwargs[i].name] = kwargs[i].val
                   ELSE /\ strict.last.raised
                              \in {"AttributeError", "AttributeValidationError"}
                        /\ Fields(strict) = Fields(cat)
                        /\ State(strict) = State(cat)
                /\ lenient.last.raised = "none"
                /\ \A n \in AttrNames :
                      lenient.attrs[n] =
                          IF \E i \in set : kwargs[i].name = n
                          THEN kwargs[CHOOSE i \in set : kwargs[i].name = n].val
                          ELSE cat.attrs[n]
                /\ lenient.modified =
                      cat.modified \cup {kwargs[i].name : i \in
                          {j \in set : kwargs[j].val # cat.attrs[kwargs[j].name]}}

C34_Witness ==
    /\ cat.last.op = "update" /\ cat.last.raised = "AttributeValidationError"
    /\ cat.last.undone # {}

\* the primary token_info.json: the default path or its override
PrimaryPath == InitialPath([call EXCEPT !.token_info_path = SENTINEL], env)

\* the instance can reach the request of _get_token, after which it reads and
\* writes the file at its token_info_path
MayRefresh ==
    /\ auth.client_id # NONE
    /\ auth.client_secret # NONE \/ auth.refresh_token # NONE

\* the constructor did not read the primary file, and no refresh of the
\* instance will read or write it
PrimaryUntouched ==
    /\ last.mode # "file"
    /\ files[PrimaryPath] = AllMissing[PrimaryPath] \/ ~ConstructWrites(call, env)
          \/ auth.token_info_path # PrimaryPath
    /\ MayRefresh => auth.token_info_path # PrimaryPath

\* C35, a credential supplied read as not None
C35_AsNotNone ==
    (\/ ArgClientId(call, env) # NONE \/ ArgClientSecret(call, env) # NONE
     \/ ArgRefreshToken(call, env) # NONE \/ ArgToken(call, env) # NoneTok)
        => PrimaryUntouched

\* C35, a credential supplied read as not None and not empty
C35_AsTruthy ==
    (\/ Truthy(ArgClientId(call, env)) \/ Truthy(ArgClientSecret(call, env))
     \/ Truthy(ArgRefreshToken(call, env)) \/ TruthyTok(ArgToken(call, env)))
        => PrimaryUntouched

\* C35: an instance built from supplied credentials, empty strings included,
\* with the token_info_path argument left out never reads or writes the
\* primary token_info.json: the constructor does not, and no later token
\* access or refresh can; only the derived per-refresh-token file is used.
C35_PrimaryFileUntouched ==
    (Constructed /\ last.raised = "none" /\ call.token_info_path = SENTINEL)
        => (C35_AsNotNone \/ C35_AsTruthy)

\* C36: a token without exp counts as expired whatever the leeway.  The
\* constructor, given one, ends without a token; an instance that holds one
\* (a refresh issued it) attempts a refresh on every token access, returns
\* the new token when the refresh succeeds and raises what the refresh
\* raised when it fails.
C36_NoExpAlwaysExpired ==
    auth.constructed =>
        /\ \A leeway \in 0..MaxLeeway, t \in 0..MaxTime :
              TokenExpired(GetPayload(NoExpJwt("c1", 0)), leeway, t)
        /\ \A cid \in {"c1", "c9"} :
              LET a == [call EXCEPT !.jwt_token = NoExpJwt(cid, 0)]
                  built == Construct(a, env, files, now, "ok")
              IN  built.raised = "none" => built.auth.token = NoneTok
        /\ auth.token.kind = "noexp" =>
              \A d \in Delays, resp \in Responses(auth.client_id, now), io \in IoOutcomes :
                  LET r == TokenAccess(auth, env, files, now, d, resp, io)
                  IN  /\ r.attempted
                      /\ r.inner # "none" => r.raised = r.inner /\ r.ret = NoneTok
                      /\ r.inner = "none" => r.issued /\ r.ret = r.auth.token

C36_Witness ==
    /\ auth.token.kind = "noexp" /\ last.op = "token"
    /\ last.attempted /\ last.posted /\ last.raised = "OauthError"

\* C37: a token the constructor has written to the derived cache file has
\* passed the constructor's validation: when the derived file holds the
\* supplied token after construction, the instance holds that token too (it
\* decoded, had not expired and was issued for the resolved client id).
C37_WrittenTokenValidated ==
    (/\ Constructed /\ last.raised = "none"
     /\ ConstructWrites(call, env)
     /\ files[auth.token_info_path].shape = "obj"
     /\ files[auth.token_info_path].jwt_token = ArgToken(call, env))
        => /\ auth.token = ArgToken(call, env)
           /\ ~PayloadRaises(auth.token)
           /\ GetPayload(auth.token).hasExp /\ GetPayload(auth.token).exp >= now
           /\ Truthy(auth.client_id) => GetPayload(auth.token).aud = auth.client_id

\* the organisations a group claim may name
OrgNames == {"acme", "other", ""}

\* C38: the owner subjects come from all groups of the groups claim, the
\* active-groups filter is not applied: "org:"+X is among
\* all_owner_acl_subjects exactly when the claim holds the group
\* X+":org-admin" and X is not empty, whatever the org claim is, absent
\* included.
C38_OwnerSubjectsUnfiltered ==
    idn.all_owner_acl_subjects # <<>> =>
        \A x \in OrgNames :
            ("org:" \o x) \in Range(idn.all_owner_acl_subjects)
                <=> /\ x # ""
                    /\ Exposed.hasGroups
                    /\ \E i \in 1..Len(Exposed.groups) :
                          Exposed.groups[i] = <<x, "org-admin">>

C38_Witness ==
    /\ idn.op = "all_owner_acl_subjects"
    /\ idn.claims.org = NONE
    /\ "org:acme" \in Range(idn.all_owner_acl_subjects)

(***************************************************************************)
(* SpecStale: the threads of one process read Auth.payload or Auth.token   *)
(* of one instance.  Auth.payload looks the payload up in __dict__, calls  *)
(* Auth.token when it is not there, and stores the claims of the token it  *)
(* got.                                                                    *)
(***************************************************************************)
InitStale ==
    /\ env = EmptyEnv
    /\ now = 1
    /\ last = Idle
    /\ call = NoArgs
    /\ wr = NoWrites
    /\ sess = NoSessions
    /\ idn = NoView
    /\ dflt = NoDefault
    /\ cat = NoCatalog
    /\ \E pc1, pc2 \in {"out", "payload"} :
          thr = [NoThreads EXCEPT !["t1"].pc = pc1, !["t2"].pc = pc2]
    /\ \E path \in {NONE, USERPATH} :
          /\ files = OneFile(USERPATH, Missing)
          /\ \/ auth = RaceAuth(NoneTok, path, {})
             \/ \E cached \in {{}, {"payload"}, {"payload", "namespace"}} :
                   auth = RaceAuth(RaceToken, path, cached)

\* Auth.payload line 605: payload = self.__dict__.get(KEY_PAYLOAD)
PayloadLookup(x) ==
    /\ thr[x].pc = "payload"
    /\ SetThread(x, IF auth.payload # NoPayload
                     THEN [thr[x] EXCEPT !.pc = "done", !.payload = auth.payload]
                     ELSE [thr[x] EXCEPT !.pc = "out", !.reads = TRUE])
    /\ UNCHANGED <<auth, files>>
    /\ RaceFrame

\* Auth.payload lines 608-630: the claims of the token Auth.token returned,
\* stored in __dict__
PayloadStore(x) ==
    /\ thr[x].pc = "store"
    /\ IF PayloadRaises(thr[x].ret)
       THEN /\ SetThread(x, [thr[x] EXCEPT !.pc = "done", !.raised = "AuthError"])
            /\ UNCHANGED auth
       ELSE /\ auth' = [auth EXCEPT !.payload = GetPayload(thr[x].ret)]
            /\ SetThread(x, [thr[x] EXCEPT !.pc = "done",
                                            !.payload = GetPayload(thr[x].ret)])
    /\ UNCHANGED files
    /\ RaceFrame

NextStale ==
    \E x \in Threads :
        \/ PayloadLookup(x)
        \/ Enter(x)
        \/ Decode(x)
        \/ Request(x)
        \/ ClearCheck(x)
        \/ ClearDel(x)
        \/ ReadBack(x)
        \/ Merge(x)
        \/ WriteBack(x)
        \/ Return(x)
        \/ PayloadStore(x)

SpecStale == InitStale /\ [][NextStale]_vars

\* C39: when all calls have returned without an exception and one of them
\* reissued the token, every cached identity value is absent or is the one
\* derived from the token now in memory.
C39_NoStaleIdentity ==
    (/\ \A x \in Threads : thr[x].pc = "done" /\ thr[x].raised = "none"
     /\ IssuedToThreads # {})
        => /\ auth.payload \in {NoPayload, GetPayload(auth.token)}
           /\ \A k \in IdentityKeys : auth.identity[k] \in {NoneTok, auth.token}

====
